---- MODULE Spec2Model ----
(***************************************************************************)
(* Model of the PR review gate of opencode_python:                         *)
(*   agents/review/orchestrator.py  PRReviewOrchestrator                   *)
(*   agents/review/base.py          BaseReviewAgent                        *)
(*   agents/review/{architecture,security,documentation,telemetry_metrics, *)
(*                  linting,unit_tests}.py   the six required reviewers     *)
(*   models/review.py               the pydantic contracts                 *)
(*                                                                         *)
(* Strings that the code inspects (titles, evidence, file paths) are       *)
(* sequences of one-character strings, so that slicing (evidence[:100]),   *)
(* formatting (f"{title}:{evidence}"), lower() and the substring test      *)
(* (pattern in path) are computed as the code computes them.               *)
(* A Finding carries the fields the code reads (id, title, severity,       *)
(* evidence); confidence, owner, estimate, risk, recommendation and        *)
(* suggested_patch are copied through untouched and are left out.          *)
(***************************************************************************)
EXTENDS Integers, Sequences, FiniteSets, TLC

VARIABLES
    pc,                \* position of review_pr: NOT_STARTED, RUNNING, AGGREGATED, DONE
    idx,               \* index into REQUIRED_SUBAGENTS of the next reviewer to run
    subagent_results,  \* self.subagent_results: the dumped ReviewOutputs, in order
    outcomes,          \* history: what each invoked reviewer did (raised, or its findings)
    rollup,            \* the OrchestratorRollup of _aggregate_results (its findings)
    output,            \* the OrchestratorOutput returned by review_pr
    all_findings,      \* _dedupe_findings: the findings argument
    deduped_findings,  \* _dedupe_findings: the list returned, as [value |-> list]
    gen_agent,         \* generate_output: the reviewer (self.name)
    gen_findings,      \* generate_output: the findings argument
    gen_output,        \* generate_output: the ReviewOutput returned
    changed_files,     \* analyze_changes: the changed_files argument
    scope_agent,       \* analyze_changes: the reviewer whose method ran
    scope,             \* analyze_changes: the ReviewScope returned
    diff,              \* review_pr: the diff argument
    llm_client,        \* PRReviewOrchestrator.llm_client: whether a client was given
    deduped_again,     \* _dedupe_findings applied to its own result, as [value |-> list]
    risk_args,         \* _classify_risk: the arguments of two calls
    risk_levels,       \* _classify_risk: the risk levels the two calls returned
    context,           \* DiffScoperReviewer.review: the ReviewContext
    scoper_output,     \* DiffScoperReviewer.review: the ReviewOutput returned
    calls,             \* the review_pr calls made on one orchestrator, each with its position
    review_input,      \* LintingReviewer / DocumentationReviewer .review: what the context yields
    review_output      \* LintingReviewer / DocumentationReviewer .review: the ReviewOutput

vars == <<pc, idx, subagent_results, outcomes, rollup, output, all_findings,
          deduped_findings,
          gen_agent, gen_findings, gen_output, changed_files, scope_agent, scope,
          diff, llm_client, deduped_again, risk_args, risk_levels, context, scoper_output,
          calls, review_input, review_output>>

runVars == <<pc, idx, subagent_results, outcomes, rollup, output>>
dedupeVars == <<all_findings, deduped_findings, deduped_again>>
genVars == <<gen_agent, gen_findings, gen_output>>
scopeVars == <<changed_files, scope_agent, scope>>
clientVars == <<diff, llm_client>>
riskVars == <<risk_args, risk_levels>>
scoperVars == <<context, scoper_output>>
callVars == <<calls>>
contractVars == <<review_input, review_output>>

None == [none |-> TRUE]

----------------------------------------------------------------------------
(* Bounds of the model *)

\* most findings one reviewer returns in a run
MaxPerReviewer == 1
\* most findings all reviewers together return in a run
MaxRunFindings == 2
\* longest findings list handed to _dedupe_findings
MaxCollected == 2
\* longest findings list handed to generate_output
MaxGenFindings == 3
\* longest changed-file list handed to analyze_changes
MaxChangedFiles == 3

----------------------------------------------------------------------------
(* Sequence helpers *)

Range(s) == {s[i] : i \in 1..Len(s)}

Min2(a, b) == IF a < b THEN a ELSE b

RECURSIVE Flatten(_)
Flatten(ss) == IF ss = <<>> THEN <<>> ELSE Head(ss) \o Flatten(Tail(ss))

\* [g(x) for x in s]
MapSeq(s, G(_)) == [i \in 1..Len(s) |-> G(s[i])]

\* sequences over S of length at most n
SeqsUpTo(S, n) == UNION {[1..k -> S] : k \in 0..n}

\* n copies of c
Repeat(c, n) == [i \in 1..n |-> c]

----------------------------------------------------------------------------
(* String helpers: a string is a sequence of one-character strings *)

UpperCase == <<"A", "B", "C", "D", "E", "F", "G", "H", "I", "J", "K", "L", "M",
               "N", "O", "P", "Q", "R", "S", "T", "U", "V", "W", "X", "Y", "Z">>
LowerCase == <<"a", "b", "c", "d", "e", "f", "g", "h", "i", "j", "k", "l", "m",
               "n", "o", "p", "q", "r", "s", "t", "u", "v", "w", "x", "y", "z">>

LowerChar(c) ==
    IF \E i \in 1..Len(UpperCase) : UpperCase[i] = c
    THEN LowerCase[CHOOSE i \in 1..Len(UpperCase) : UpperCase[i] = c]
    ELSE c

\* str.lower()
Lower(str) == [i \in 1..Len(str) |-> LowerChar(str[i])]

\* pattern in str
Contains(str, pattern) ==
    \E i \in 1..(Len(str) - Len(pattern) + 1) :
        SubSeq(str, i, i + Len(pattern) - 1) = pattern

\* any(pattern in str for pattern in patterns)
ContainsAny(str, patterns) == \E k \in 1..Len(patterns) : Contains(str, patterns[k])

\* str.startswith(prefix)
StartsWith(str, prefix) ==
    Len(prefix) <= Len(str) /\ SubSeq(str, 1, Len(prefix)) = prefix

\* str.endswith(suffix)
EndsWith(str, suffix) ==
    Len(suffix) <= Len(str) /\ SubSeq(str, Len(str) - Len(suffix) + 1, Len(str)) = suffix

----------------------------------------------------------------------------
(* models/review.py: severities and decisions *)

Severities == {"merge", "warning", "critical", "blocking"}

\* the total order merge < warning < critical < blocking of the merge gate policy
SeverityRank(s) ==
    CASE s = "merge" -> 0
      [] s = "warning" -> 1
      [] s = "critical" -> 2
      [] s = "blocking" -> 3

\* the greatest severity in a list of findings, "merge" for the empty list
MaxSeverity(findings) ==
    IF findings = <<>> THEN "merge"
    ELSE CHOOSE s \in {findings[i].severity : i \in 1..Len(findings)} :
            \A i \in 1..Len(findings) : SeverityRank(findings[i].severity) <= SeverityRank(s)

IdsOf(findings) == MapSeq(findings, LAMBDA f : f.id)

IsMustFix(f) == f.severity \in {"critical", "blocking"}
IsShouldFix(f) == f.severity = "warning"

----------------------------------------------------------------------------
(* agents/review/base.py: BaseReviewAgent.generate_output *)

AnySeverity(findings, s) == \E i \in 1..Len(findings) : findings[i].severity = s

\* a first-match scan in place of the any() cascade
GenSeverity_FirstMatch(findings) ==
    IF findings = <<>> THEN "merge"
    ELSE IF findings[1].severity = "merge" THEN "warning"
    ELSE findings[1].severity

\* base.py 214-221: the overall severity of a reviewer's own findings
GenSeverity(findings) ==
    IF findings = <<>> THEN "merge"
    ELSE IF AnySeverity(findings, "blocking") THEN "blocking"
    ELSE IF AnySeverity(findings, "critical") THEN "critical"
    ELSE "warning"

\* the warning branch taking the decision of the critical branch
GenMergeGate_WarningNeedsChanges(severity, findings) ==
    CASE severity = "blocking" ->
            [decision |-> "block", must_fix |-> IdsOf(findings), should_fix |-> <<>>]
      [] severity \in {"critical", "warning"} ->
            [decision |-> "needs_changes", must_fix |-> IdsOf(findings), should_fix |-> <<>>]
      [] OTHER ->
            [decision |-> "approve", must_fix |-> <<>>, should_fix |-> <<>>]

\* base.py 224-239: decision, must_fix and should_fix from the overall severity
GenMergeGate(severity, findings) ==
    CASE severity = "blocking" ->
            [decision |-> "block", must_fix |-> IdsOf(findings), should_fix |-> <<>>]
      [] severity = "critical" ->
            [decision |-> "needs_changes", must_fix |-> IdsOf(findings), should_fix |-> <<>>]
      [] severity = "warning" ->
            [decision |-> "approve_with_warnings", must_fix |-> <<>>,
             should_fix |-> IdsOf(findings)]
      [] OTHER ->
            [decision |-> "approve", must_fix |-> <<>>, should_fix |-> <<>>]

\* base.py 245-249: one note naming the count and the ids, none without findings
GenNotes(findings) ==
    IF findings # <<>> THEN <<[fix |-> Len(findings), ids |-> IdsOf(findings)]>> ELSE <<>>

\* base.py 193-265
generate_output(name, findings) ==
    LET severity == GenSeverity(findings)
        gate == GenMergeGate(severity, findings)
    IN  [agent |-> name,
         severity |-> severity,
         findings |-> findings,
         merge_gate |-> [decision |-> gate.decision,
                         must_fix |-> gate.must_fix,
                         should_fix |-> gate.should_fix,
                         notes_for_coding_agent |-> GenNotes(findings)]]

\* base.py 251-265: the ReviewOutput with the scope, checks and skips handed to
\* generate_output copied into it
ReviewOutput(name, scope_, checks, skips, findings) ==
    LET out == generate_output(name, findings)
    IN  [agent |-> out.agent,
         severity |-> out.severity,
         scope |-> scope_,
         checks |-> checks,
         skips |-> skips,
         findings |-> out.findings,
         merge_gate |-> out.merge_gate]

\* the ReviewScope of a reviewer when no file changed
NoFilesScope ==
    [relevant_files |-> <<>>, ignored_files |-> <<>>,
     reasoning |-> [reviewed |-> 0, ignored |-> 0]]

----------------------------------------------------------------------------
(* agents/review/orchestrator.py: PRReviewOrchestrator *)

REQUIRED_SUBAGENTS ==
    <<"architecture", "security", "documentation", "telemetry_metrics", "linting",
      "unit_tests">>

\* evidence[:100]
EvidenceKeyLen == 100

Slice(s, n) == SubSeq(s, 1, Min2(n, Len(s)))

\* orchestrator.py 244: key = f"{finding.title}:{finding.evidence[:100]}"
DedupeKey(f) == f.title \o <<":">> \o Slice(f.evidence, EvidenceKeyLen)

RECURSIVE DedupeLoop(_, _, _, _)
DedupeLoop(findings, i, seen, deduped) ==
    IF i > Len(findings) THEN deduped
    ELSE LET key == DedupeKey(findings[i])
         IN  IF key \notin seen
             THEN DedupeLoop(findings, i + 1, seen \cup {key}, Append(deduped, findings[i]))
             ELSE DedupeLoop(findings, i + 1, seen, deduped)

\* the loop with a kept finding put in front of the list instead of at its end
RECURSIVE DedupeLoopPrepend(_, _, _, _)
DedupeLoopPrepend(findings, i, seen, deduped) ==
    IF i > Len(findings) THEN deduped
    ELSE LET key == DedupeKey(findings[i])
         IN  IF key \notin seen
             THEN DedupeLoopPrepend(findings, i + 1, seen \cup {key},
                                    <<findings[i]>> \o deduped)
             ELSE DedupeLoopPrepend(findings, i + 1, seen, deduped)

_dedupe_findings_Prepend(findings) == DedupeLoopPrepend(findings, 1, {}, <<>>)

\* orchestrator.py 236-251
_dedupe_findings(findings) == DedupeLoop(findings, 1, {}, <<>>)

\* orchestrator.py 211-222: Finding -> OrchestratorFinding, tagged with the one agent
ToOrchFinding(agent_name, f) ==
    [id |-> f.id, source_agents |-> <<agent_name>>, title |-> f.title,
     severity |-> f.severity, evidence |-> f.evidence]

\* orchestrator.py 202-223: every finding of every result, in result order
CollectFindings(results) ==
    Flatten([r \in 1..Len(results) |->
                MapSeq(results[r].findings,
                       LAMBDA f : ToOrchFinding(results[r].agent, f))])

\* orchestrator.py 194-234
_aggregate_results(results) ==
    [final_severity |-> "merge", final_decision |-> "approve", rationale |-> <<>>,
     findings |-> _dedupe_findings(CollectFindings(results))]

RECURSIVE SeverityScan(_, _)
SeverityScan(findings, i) ==
    IF i > Len(findings) THEN "merge"
    ELSE IF findings[i].severity = "blocking" THEN "blocking"
    ELSE IF findings[i].severity = "critical" THEN "critical"
    ELSE IF findings[i].severity = "warning" THEN "warning"
    ELSE SeverityScan(findings, i + 1)

\* orchestrator.py 348-370
_determine_final_severity(findings) ==
    IF findings = <<>> THEN "merge" ELSE SeverityScan(findings, 1)

\* the decision table with the critical entry mapped to approve_with_warnings
_map_severity_to_decision_Lenient(severity) ==
    CASE severity = "blocking" -> "block"
      [] severity = "critical" -> "approve_with_warnings"
      [] severity = "warning" -> "approve_with_warnings"
      [] OTHER -> "approve"

\* orchestrator.py 372-382
_map_severity_to_decision(severity) ==
    CASE severity = "blocking" -> "block"
      [] severity = "critical" -> "needs_changes"
      [] severity = "warning" -> "approve_with_warnings"
      [] severity = "merge" -> "approve"
      [] OTHER -> "approve"

CountSeverity(findings, s) == Cardinality({i \in 1..Len(findings) : findings[i].severity = s})

\* orchestrator.py 384-403: the counts that the rationale string joins
_generate_rationale(final_severity, findings) ==
    IF final_severity = "merge" THEN <<"No issues found across all review domains">>
    ELSE SelectSeq(<<[n |-> CountSeverity(findings, "blocking"), what |-> "blocking issue(s)"],
                     [n |-> CountSeverity(findings, "critical"), what |-> "critical issue(s)"],
                     [n |-> CountSeverity(findings, "warning"), what |-> "warning(s)"]>>,
                   LAMBDA part : part.n > 0)

RECURSIVE RiskScan(_, _, _)
RiskScan(results, i, risk_level) ==
    IF i > Len(results) THEN risk_level
    ELSE IF results[i].severity \in {"critical", "blocking"} THEN "high"
    ELSE IF results[i].severity = "warning" /\ risk_level # "high"
         THEN RiskScan(results, i + 1, "medium")
    ELSE RiskScan(results, i + 1, risk_level)

\* the checks from position i on whose name no earlier check carries
RECURSIVE FirstPerName(_, _)
FirstPerName(checks, i) ==
    IF i > Len(checks) THEN <<>>
    ELSE (IF \E j \in 1..(i - 1) : checks[j].name = checks[i].name
          THEN <<>> ELSE <<checks[i]>>)
         \o FirstPerName(checks, i + 1)

\* the tool plan with checks deduplicated by name
_generate_tool_plan_UniqueNames(files, results) ==
    [recommended_checks |->
        FirstPerName(Flatten([r \in 1..Len(results) |->
                                 MapSeq(results[r].checks,
                                        LAMBDA c : [name |-> c.name, required |-> c.required,
                                                    commands |-> c.commands, scope |-> files,
                                                    why |-> c.why])]), 1),
     skipped_checks |-> Flatten([r \in 1..Len(results) |-> results[r].skips]),
     observed_outputs |-> <<>>]

\* orchestrator.py 253-298: every check of every result, scoped to the changed files,
\* and every skip, in result order
_generate_tool_plan(files, results) ==
    [recommended_checks |->
        Flatten([r \in 1..Len(results) |->
                    MapSeq(results[r].checks,
                           LAMBDA c : [name |-> c.name, required |-> c.required,
                                       commands |-> c.commands, scope |-> files,
                                       why |-> c.why])]),
     skipped_checks |-> Flatten([r \in 1..Len(results) |-> results[r].skips]),
     observed_outputs |-> <<>>]

\* orchestrator.py 328-346
_infer_change_intent(files, d) ==
    IF d = <<>> THEN <<"Review of changed files", Len(files)>>
    ELSE IF Contains(Lower(d), <<"d", "e", "f", " ">>) \/ Contains(Lower(d), <<"c", "l", "a", "s", "s", " ">>)
         THEN <<"Implementation of new code">>
    ELSE IF Contains(Lower(d), <<"i", "m", "p", "o", "r", "t", " ">>) THEN <<"Dependency or import changes">>
    ELSE IF Contains(Lower(d), <<"t", "e", "s", "t">>) THEN <<"Test additions or modifications">>
    ELSE <<"Review of changed files", Len(files)>>

\* orchestrator.py 300-326
_generate_summary(files, d, results) ==
    [change_intent |-> _infer_change_intent(files, d),
     risk_level |-> RiskScan(results, 1, "low"),
     high_risk_areas |->
        MapSeq(SelectSeq(results, LAMBDA r : r.severity \in {"critical", "blocking"}),
               LAMBDA r : r.agent),
     changed_files_count |-> Len(files)]

\* orchestrator.py 145-168: the OrchestratorOutput assembled from the rollup
BuildOutput(files, d, results, rollup_findings) ==
    LET final_severity == _determine_final_severity(rollup_findings)
        final_decision == _map_severity_to_decision(final_severity)
    IN  [summary |-> _generate_summary(files, d, results),
         tool_plan |-> _generate_tool_plan(files, results),
         rollup |-> [final_severity |-> final_severity,
                     final_decision |-> final_decision,
                     rationale |-> _generate_rationale(final_severity, rollup_findings),
                     findings |-> rollup_findings],
         findings |-> rollup_findings,
         subagent_results |-> results,
         merge_gate |->
            [decision |-> final_decision,
             must_fix |-> IdsOf(SelectSeq(rollup_findings, IsMustFix)),
             should_fix |-> IdsOf(SelectSeq(rollup_findings, IsShouldFix)),
             notes_for_coding_agent |-> <<[address |-> Len(rollup_findings)]>>]]

----------------------------------------------------------------------------
(* Inputs: the findings a reviewer may return *)

Pad == Repeat("e", EvidenceKeyLen - 1)

TitleA == <<"a">>
TitleAB == <<"a", ":", "b">>
EvidenceC == <<"c">>
EvidenceBC == <<"b", ":", "c">>
\* two evidences equal in their first 100 characters, and one differing at the 100th
EvidenceLongP == Pad \o <<"x", "p">>
EvidenceLongQ == Pad \o <<"x", "q">>
EvidenceLongY == Pad \o <<"y", "p">>

FindingOf(id, title, evidence, severity) ==
    [id |-> id, title |-> title, evidence |-> evidence, severity |-> severity]

FindingSeverities == {"warning", "critical", "blocking"}

\* findings that reviewers return during a run of review_pr: a first issue under the
\* id F1 at each finding-level severity and at severity "merge", which the Finding model
\* (models/review.py 76) also admits; a second issue under its own id F2 when critical
\* or blocking, and under the id of the first when a warning (each reviewer chooses
\* its ids)
ReviewerFindings ==
    {FindingOf("F1", TitleA, EvidenceC, s) : s \in Severities}
    \cup {FindingOf("F2", TitleAB, EvidenceC, s) : s \in {"critical", "blocking"}}
    \cup {FindingOf("F1", TitleAB, EvidenceC, "warning")}

----------------------------------------------------------------------------
(* review_pr, orchestrator.py 103-172, one reviewer invocation per step *)

NumReturned == Len(Flatten(MapSeq(outcomes, LAMBDA o : o.findings)))

\* orchestrator.py 125: self.subagent_results = []
StartReview ==
    /\ pc = "NOT_STARTED"
    /\ pc' = "RUNNING"
    /\ idx' = 1
    /\ subagent_results' = <<>>
    /\ UNCHANGED <<outcomes, rollup, output, dedupeVars, genVars, scopeVars,
                 clientVars, riskVars, scoperVars, callVars, contractVars>>

\* orchestrator.py 135-139 with _run_subagent (174-192): the reviewer returns a
\* ReviewOutput, which is appended. Here any reviewer may return findings, and its
\* output is the one generate_output builds from them; no file changed, so that the
\* scope is empty and no check is proposed (SpecReview runs the six reviewers as they
\* are, on changed files, with their checks).
RunSubagentReturns ==
    /\ pc = "RUNNING"
    /\ idx <= Len(REQUIRED_SUBAGENTS)
    /\ \E fs \in SeqsUpTo(ReviewerFindings, MaxPerReviewer) :
          /\ NumReturned + Len(fs) <= MaxRunFindings
          /\ subagent_results' =
                Append(subagent_results,
                       ReviewOutput(REQUIRED_SUBAGENTS[idx], NoFilesScope, <<>>, <<>>, fs))
          /\ outcomes' = Append(outcomes, [agent |-> REQUIRED_SUBAGENTS[idx],
                                           raised |-> FALSE, findings |-> fs,
                                           checks |-> <<>>, skips |-> <<>>])
    /\ idx' = idx + 1
    /\ UNCHANGED <<pc, rollup, output, dedupeVars, genVars, scopeVars,
                 clientVars, riskVars, scoperVars, callVars, contractVars>>

\* the except branch leaving the loop (break) instead of continuing it
RunSubagentRaises_Break ==
    /\ pc = "RUNNING"
    /\ idx <= Len(REQUIRED_SUBAGENTS)
    /\ outcomes' = Append(outcomes, [agent |-> REQUIRED_SUBAGENTS[idx],
                                     raised |-> TRUE, findings |-> <<>>,
                                     checks |-> <<>>, skips |-> <<>>])
    /\ idx' = Len(REQUIRED_SUBAGENTS) + 1
    /\ UNCHANGED <<pc, subagent_results, rollup, output, dedupeVars, genVars, scopeVars,
                 clientVars, riskVars, scoperVars, callVars, contractVars>>

\* the except branch recording a review without findings for the failed reviewer
RunSubagentRaises_RecordsEmpty ==
    /\ pc = "RUNNING"
    /\ idx <= Len(REQUIRED_SUBAGENTS)
    /\ subagent_results' =
          Append(subagent_results,
                 ReviewOutput(REQUIRED_SUBAGENTS[idx], NoFilesScope, <<>>, <<>>, <<>>))
    /\ outcomes' = Append(outcomes, [agent |-> REQUIRED_SUBAGENTS[idx],
                                     raised |-> TRUE, findings |-> <<>>,
                                     checks |-> <<>>, skips |-> <<>>])
    /\ idx' = idx + 1
    /\ UNCHANGED <<pc, rollup, output, dedupeVars, genVars, scopeVars,
                 clientVars, riskVars, scoperVars, callVars, contractVars>>

\* orchestrator.py 140-142: the reviewer raises; logged, and the loop continues
RunSubagentRaises ==
    /\ pc = "RUNNING"
    /\ idx <= Len(REQUIRED_SUBAGENTS)
    /\ outcomes' = Append(outcomes, [agent |-> REQUIRED_SUBAGENTS[idx],
                                     raised |-> TRUE, findings |-> <<>>,
                                     checks |-> <<>>, skips |-> <<>>])
    /\ idx' = idx + 1
    /\ UNCHANGED <<pc, subagent_results, rollup, output, dedupeVars, genVars, scopeVars,
                 clientVars, riskVars, scoperVars, callVars, contractVars>>

\* aggregation starting as soon as one reviewer has been invoked
Aggregate_Early ==
    /\ pc = "RUNNING"
    /\ idx > 1
    /\ rollup' = _aggregate_results(subagent_results)
    /\ pc' = "AGGREGATED"
    /\ UNCHANGED <<idx, subagent_results, outcomes, output, dedupeVars, genVars, scopeVars,
                 clientVars, riskVars, scoperVars, callVars, contractVars>>

\* orchestrator.py 144: rollup = self._aggregate_results(self.subagent_results)
Aggregate ==
    /\ pc = "RUNNING"
    /\ idx > Len(REQUIRED_SUBAGENTS)
    /\ rollup' = _aggregate_results(subagent_results)
    /\ pc' = "AGGREGATED"
    /\ UNCHANGED <<idx, subagent_results, outcomes, output, dedupeVars, genVars, scopeVars,
                 clientVars, riskVars, scoperVars, callVars, contractVars>>

\* orchestrator.py 145-172: summary, final severity and decision, the returned output
Finish ==
    /\ pc = "AGGREGATED"
    /\ output' = BuildOutput(changed_files, diff, subagent_results, rollup.findings)
    /\ pc' = "DONE"
    /\ UNCHANGED <<idx, subagent_results, outcomes, rollup, dedupeVars, genVars, scopeVars,
                 clientVars, riskVars, scoperVars, callVars, contractVars>>

\* the variables of the run of review_pr, before it starts
RunIdle ==
    /\ pc = "NOT_STARTED"
    /\ idx = 0
    /\ subagent_results = <<>>
    /\ outcomes = <<>>
    /\ rollup = None
    /\ output = None

DedupeIdle == all_findings = <<>> /\ deduped_findings = None /\ deduped_again = None

GenIdle == gen_agent = "none" /\ gen_findings = <<>> /\ gen_output = None

ScopeIdle == changed_files = <<>> /\ scope_agent = "none" /\ scope = None

ClientIdle == diff = <<>> /\ llm_client = FALSE

RiskIdle == risk_args = None /\ risk_levels = None

ScoperIdle == context = None /\ scoper_output = None

CallsIdle == calls = <<>>

ContractIdle == review_input = None /\ review_output = None

Init == RunIdle /\ DedupeIdle /\ GenIdle /\ ScopeIdle /\ ClientIdle /\ RiskIdle /\ ScoperIdle /\ CallsIdle /\ ContractIdle

Next ==
    \/ StartReview
    \/ RunSubagentReturns
    \/ RunSubagentRaises
    \/ Aggregate
    \/ Finish

Spec == Init /\ [][Next]_vars

----------------------------------------------------------------------------
(* Claims about a run of review_pr, checked under Spec *)

\* the decision the merge gate policy assigns to a severity
PolicyDecision(s) ==
    CASE s = "blocking" -> "block"
      [] s = "critical" -> "needs_changes"
      [] s = "warning" -> "approve_with_warnings"
      [] s = "merge" -> "approve"

\* the reviewers of the run that returned a ReviewOutput
Returned == SelectSeq(outcomes, LAMBDA o : ~o.raised)

\* what the reviewers that returned handed back, in invocation order
ReturnedFindings == Flatten(MapSeq(Returned, LAMBDA o : o.findings))

\* the same, each finding tagged with the reviewer that raised it
ReturnedTagged ==
    Flatten(MapSeq(Returned,
                   LAMBDA o : MapSeq(o.findings, LAMBDA f : ToOrchFinding(o.agent, f))))

Untag(f) == FindingOf(f.id, f.title, f.evidence, f.severity)

\* the key of the specification: (title, first 100 characters of evidence)
PairKey(f) == <<f.title, Slice(f.evidence, EvidenceKeyLen)>>

\* C1: the final severity of a run is the greatest severity among the deduplicated
\* findings under merge < warning < critical < blocking ("merge" without findings),
\* whatever their order.
C1_FinalSeverityIsMax ==
    pc = "DONE" => output.rollup.final_severity = MaxSeverity(output.rollup.findings)

\* C2: whichever reviewers raise, every required reviewer is invoked and the findings
\* collected for the rollup are exactly the findings returned by the reviewers that
\* did not raise, with the same id, title, evidence and severity and in the same order;
\* the rollup holds their deduplication.
C2_FailureIsolation ==
    pc \in {"AGGREGATED", "DONE"} =>
        /\ Len(outcomes) = Len(REQUIRED_SUBAGENTS)
        /\ MapSeq(CollectFindings(subagent_results), Untag) = ReturnedFindings
        /\ rollup.findings = _dedupe_findings(ReturnedTagged)

\* a reviewer raised between two reviewers whose findings both reached the rollup
C2_Witness ==
    /\ pc = "DONE"
    /\ \E i, j, k \in 1..Len(outcomes) :
          /\ i < j /\ j < k
          /\ outcomes[i].findings # <<>>
          /\ outcomes[j].raised
          /\ outcomes[k].findings # <<>>
    /\ Len(output.rollup.findings) = 2

\* C3: when every required reviewer raised, the returned decision is not "approve".
C3_AllFailedNotApprove ==
    (pc = "DONE" /\ \A i \in 1..Len(outcomes) : outcomes[i].raised)
        => /\ output.rollup.final_decision # "approve"
           /\ output.merge_gate.decision # "approve"

\* C4: in the returned output the final decision is the fixed mapping of the final
\* severity and merge_gate.decision equals it; with final severity blocking, must_fix
\* is exactly the ids of the blocking and critical rollup findings; with final severity
\* merge, must_fix and should_fix are empty.
C4_DecisionFollowsSeverity ==
    pc = "DONE" =>
        /\ output.rollup.final_decision = PolicyDecision(output.rollup.final_severity)
        /\ output.merge_gate.decision = output.rollup.final_decision
        /\ output.rollup.final_severity = "blocking" =>
              output.merge_gate.must_fix =
                 IdsOf(SelectSeq(output.rollup.findings,
                                 LAMBDA f : f.severity \in {"blocking", "critical"}))
        /\ output.rollup.final_severity = "merge" =>
              /\ output.merge_gate.must_fix = <<>>
              /\ output.merge_gate.should_fix = <<>>

\* a blocking and a critical finding in the rollup, both in must_fix of a block
C4_Witness ==
    /\ pc = "DONE"
    /\ output.rollup.final_severity = "blocking"
    /\ output.merge_gate.decision = "block"
    /\ \E i \in 1..Len(output.rollup.findings) :
          output.rollup.findings[i].severity = "critical"
    /\ Len(output.merge_gate.must_fix) = 2

\* C6: every rollup finding names, in source_agents, all the reviewers that returned a
\* finding with its (title, evidence[:100]).
C6_SourceAgentsUnion ==
    pc = "DONE" =>
        \A i \in 1..Len(output.rollup.findings) :
            Range(output.rollup.findings[i].source_agents) =
                {Returned[r].agent : r \in
                    {r \in 1..Len(Returned) :
                        \E n \in 1..Len(Returned[r].findings) :
                            PairKey(Returned[r].findings[n]) =
                                PairKey(output.rollup.findings[i])}}

----------------------------------------------------------------------------
(* _dedupe_findings applied to every bounded list of collected findings *)

\* collected findings: titles and evidence with and without the ':' that joins the key,
\* evidence longer than 100 characters, every severity, two ids from two reviewers
CollectedFindings ==
    {ToOrchFinding(a[2], FindingOf(a[1], t[1], t[2], s)) :
        a \in {<<"F1", "architecture">>, <<"F2", "security">>},
        t \in {<<TitleA, EvidenceBC>>, <<TitleAB, EvidenceC>>, <<TitleA, EvidenceLongP>>,
               <<TitleA, EvidenceLongQ>>, <<TitleA, EvidenceLongY>>},
        s \in Severities}

InitDedupe ==
    /\ RunIdle /\ GenIdle /\ ScopeIdle /\ ClientIdle /\ RiskIdle /\ ScoperIdle /\ CallsIdle /\ ContractIdle
    /\ all_findings \in SeqsUpTo(CollectedFindings, MaxCollected)
    /\ deduped_findings = None
    /\ deduped_again = None

\* orchestrator.py 227: deduped_findings = self._dedupe_findings(all_findings)
DedupeFindings ==
    /\ deduped_findings = None
    /\ deduped_findings' = [value |-> _dedupe_findings(all_findings)]
    /\ UNCHANGED <<runVars, all_findings, deduped_again, genVars, scopeVars,
                 clientVars, riskVars, scoperVars, callVars, contractVars>>

\* _dedupe_findings called on the list it returned
DedupeAgain ==
    /\ deduped_findings # None
    /\ deduped_again = None
    /\ deduped_again' = [value |-> _dedupe_findings(deduped_findings.value)]
    /\ UNCHANGED <<runVars, all_findings, deduped_findings, genVars, scopeVars,
                 clientVars, riskVars, scoperVars, callVars, contractVars>>

NextDedupe ==
    \/ DedupeFindings
    \/ DedupeAgain

SpecDedupe == InitDedupe /\ [][NextDedupe]_vars

\* the findings of s from position i on that no earlier finding of s shares its
\* (title, evidence[:100]) with
RECURSIVE FirstPerKey(_, _)
FirstPerKey(s, i) ==
    IF i > Len(s) THEN <<>>
    ELSE (IF \E j \in 1..(i - 1) : PairKey(s[j]) = PairKey(s[i]) THEN <<>> ELSE <<s[i]>>)
         \o FirstPerKey(s, i + 1)

\* C5: _dedupe_findings returns, in their original order and unchanged, exactly the
\* first finding for each distinct (title, first 100 characters of evidence): every
\* key of the input appears once in the output.
C5_DedupeKeepsFirstPerKey ==
    deduped_findings # None =>
        /\ deduped_findings.value = FirstPerKey(all_findings, 1)
        /\ {PairKey(all_findings[i]) : i \in 1..Len(all_findings)} =
              {PairKey(deduped_findings.value[i]) : i \in 1..Len(deduped_findings.value)}

\* C19: deduplication is idempotent: _dedupe_findings applied to the list it returned
\* gives the same findings in the same order.
C19_DedupeIdempotent ==
    deduped_again # None => deduped_again.value = deduped_findings.value

\* a list of two findings with different keys, deduplicated twice
C19_Witness ==
    /\ deduped_again # None
    /\ Len(all_findings) = 2
    /\ Len(deduped_again.value) = 2
    /\ all_findings[1].title # all_findings[2].title

----------------------------------------------------------------------------
(* generate_output applied to every bounded list of findings *)

\* findings handed to generate_output: three ids at every severity of the Finding model
GenFindings ==
    {FindingOf(id, TitleA, EvidenceC, s) : id \in {"G1", "G2", "G3"}, s \in Severities}

InitGen ==
    /\ RunIdle /\ DedupeIdle /\ ScopeIdle /\ ClientIdle /\ RiskIdle /\ ScoperIdle /\ CallsIdle /\ ContractIdle
    /\ gen_agent = "none"
    /\ gen_findings \in SeqsUpTo(GenFindings, MaxGenFindings)
    /\ gen_output = None

\* each required reviewer's generate_output delegates to BaseReviewAgent.generate_output
GenerateOutput ==
    /\ gen_output = None
    /\ \E a \in Range(REQUIRED_SUBAGENTS) :
          /\ gen_agent' = a
          /\ gen_output' = generate_output(a, gen_findings)
    /\ UNCHANGED <<runVars, dedupeVars, gen_findings, scopeVars,
                 clientVars, riskVars, scoperVars, callVars, contractVars>>

NextGen == GenerateOutput

SpecGen == InitGen /\ [][NextGen]_vars

\* C7: for every list of findings whose severities are warning, critical or blocking,
\* the severity of the ReviewOutput built by generate_output is the greatest severity
\* in the list, whatever the order; and for every list it is "merge" exactly when the
\* list is empty.
C7_OutputSeverityIsMax ==
    gen_output # None =>
        /\ (gen_output.severity = "merge") <=> (gen_findings = <<>>)
        /\ (\A i \in 1..Len(gen_findings) : gen_findings[i].severity \in FindingSeverities)
              => gen_output.severity = MaxSeverity(gen_findings)

\* a warning listed before a blocking finding, and the output built from them
C7_Witness ==
    /\ gen_output # None
    /\ Len(gen_findings) >= 2
    /\ gen_findings[1].severity = "warning"
    /\ gen_findings[2].severity = "blocking"
    /\ gen_output.severity = "blocking"

\* C8: the decision of the MergeGate built by generate_output is the fixed mapping of
\* the output's severity (blocking -> block, critical -> needs_changes, warning ->
\* approve_with_warnings, merge -> approve); without findings must_fix, should_fix and
\* notes_for_coding_agent are empty.
C8_DecisionFollowsSeverity ==
    gen_output # None =>
        /\ gen_output.merge_gate.decision = PolicyDecision(gen_output.severity)
        /\ gen_findings = <<>> =>
              /\ gen_output.merge_gate.must_fix = <<>>
              /\ gen_output.merge_gate.should_fix = <<>>
              /\ gen_output.merge_gate.notes_for_coding_agent = <<>>

\* an output built from warnings only, approved with warnings
C8_Witness ==
    /\ gen_output # None
    /\ gen_findings # <<>>
    /\ \A i \in 1..Len(gen_findings) : gen_findings[i].severity = "warning"
    /\ gen_output.merge_gate.decision = "approve_with_warnings"

DistinctIds(findings) ==
    \A i, j \in 1..Len(findings) : findings[i].id = findings[j].id => i = j

\* C9: for every list of warning, critical and blocking findings with distinct ids,
\* when the overall severity is blocking or critical, must_fix is exactly the ids of
\* the reviewer's own blocking and critical findings; the id of a warning finding is
\* never in must_fix.
C9_MustFixOnlyBlockingCritical ==
    (/\ gen_output # None
     /\ DistinctIds(gen_findings)
     /\ \A i \in 1..Len(gen_findings) : gen_findings[i].severity \in FindingSeverities
     /\ gen_output.severity \in {"blocking", "critical"})
        => /\ gen_output.merge_gate.must_fix = IdsOf(SelectSeq(gen_findings, IsMustFix))
           /\ \A i \in 1..Len(gen_findings) :
                 gen_findings[i].severity = "warning"
                    => gen_findings[i].id \notin Range(gen_output.merge_gate.must_fix)

----------------------------------------------------------------------------
(* File relevance: the analyze_changes of the reviewers *)

\* architecture.py 147-158
architecture_patterns ==
    <<<<"s", "r", "c", "/">>,
      <<"a", "p", "p", "/">>,
      <<"d", "o", "m", "a", "i", "n", "/">>,
      <<"s", "e", "r", "v", "i", "c", "e", "s", "/">>,
      <<"c", "o", "r", "e", "/">>,
      <<"l", "i", "b", "s", "/">>,
      <<"a", "g", "e", "n", "t", "s", "/">>,
      <<"t", "o", "o", "l", "s", "/">>,
      <<"o", "r", "c", "h", "e", "s", "t", "r", "a", "t", "o", "r">>,
      <<"r", "e", "g", "i", "s", "t", "r", "y">>>>

\* architecture.py 160-165
architecture_doc_patterns ==
    <<<<"R", "E", "A", "D", "M", "E">>,
      <<"C", "H", "A", "N", "G", "E", "L", "O", "G">>,
      <<".", "m", "d">>,
      <<".", "t", "x", "t">>>>

\* architecture.py 145-176: the doc patterns are lowered but looked up in the path as
\* given, not in the lowered path
_is_architecture_relevant(file_path) ==
    /\ \E k \in 1..Len(architecture_patterns) :
          Contains(Lower(file_path), Lower(architecture_patterns[k]))
    /\ ~\E d \in 1..Len(architecture_doc_patterns) :
          Contains(file_path, Lower(architecture_doc_patterns[d]))

\* security.py 78-99: security, config and dependency patterns
security_patterns ==
    <<<<"a", "u", "t", "h", "/">>,
      <<"s", "e", "c", "u", "r", "i", "t", "y", "/">>,
      <<"i", "a", "m", "/">>,
      <<"p", "e", "r", "m", "i", "s", "s", "i", "o", "n", "s", "/">>,
      <<"m", "i", "d", "d", "l", "e", "w", "a", "r", "e", "/">>,
      <<".", "y", "m", "l">>,
      <<".", "y", "a", "m", "l">>,
      <<"d", "o", "c", "k", "e", "r", "f", "i", "l", "e">>,
      <<"t", "e", "r", "r", "a", "f", "o", "r", "m">>,
      <<"d", "e", "p", "l", "o", "y">>,
      <<"p", "y", "p", "r", "o", "j", "e", "c", "t", ".", "t", "o", "m", "l">>,
      <<"r", "e", "q", "u", "i", "r", "e", "m", "e", "n", "t", "s">>,
      <<"p", "o", "e", "t", "r", "y", ".", "l", "o", "c", "k">>,
      <<"u", "v", ".", "l", "o", "c", "k">>>>

\* security.py 76-115
_is_security_relevant(file_path) == ContainsAny(Lower(file_path), security_patterns)

\* documentation.py 72-80: doc and python patterns
documentation_patterns ==
    <<<<"r", "e", "a", "d", "m", "e">>,
      <<".", "m", "d">>,
      <<"d", "o", "c">>,
      <<".", "p", "y">>>>

\* documentation.py 70-92
_is_documentation_relevant(file_path) ==
    ContainsAny(Lower(file_path), documentation_patterns)

\* telemetry_metrics.py 79-87
telemetry_patterns ==
    <<<<"w", "o", "r", "k", "f", "l", "o", "w">>,
      <<"p", "i", "p", "e", "l", "i", "n", "e">>,
      <<"o", "r", "c", "h", "e", "s", "t", "r", "a", "t", "o", "r">>,
      <<"s", "e", "r", "v", "i", "c", "e">>,
      <<"c", "l", "i", "e", "n", "t">>,
      <<"a", "p", "i">>,
      <<"h", "a", "n", "d", "l", "e", "r">>>>

\* telemetry_metrics.py 77-100: a pattern match returns True with or without ".py"
_is_telemetry_relevant(file_path) ==
    \E k \in 1..Len(telemetry_patterns) :
        /\ Contains(Lower(file_path), telemetry_patterns[k])
        /\ (Contains(Lower(file_path), <<".", "p", "y">>) \/ TRUE)

\* linting.py 76-77: python and config patterns
linting_patterns ==
    <<<<".", "p", "y">>,
      <<"p", "y", "p", "r", "o", "j", "e", "c", "t", ".", "t", "o", "m", "l">>,
      <<"r", "u", "f", "f", ".", "t", "o", "m", "l">>,
      <<"s", "e", "t", "u", "p", ".", "c", "f", "g">>,
      <<"s", "e", "t", "u", "p", ".", "p", "y">>>>

\* linting.py 74-89
_is_linting_relevant(file_path) == ContainsAny(Lower(file_path), linting_patterns)

\* unit_tests.py 78-82
test_patterns ==
    <<<<"t", "e", "s", "t">>,
      <<"_", "t", "e", "s", "t">>,
      <<"t", "e", "s", "t", "s", "/">>>>

\* unit_tests.py 76-95: a pattern match returns True with or without ".py"
_is_test_relevant(file_path) ==
    \E k \in 1..Len(test_patterns) :
        /\ Contains(Lower(file_path), test_patterns[k])
        /\ (Contains(Lower(file_path), <<".", "p", "y">>) \/ TRUE)

\* the relevance predicate each reviewer's analyze_changes calls
IsRelevant(agent, file_path) ==
    CASE agent = "architecture" -> _is_architecture_relevant(file_path)
      [] agent = "security" -> _is_security_relevant(file_path)
      [] agent = "documentation" -> _is_documentation_relevant(file_path)
      [] agent = "telemetry_metrics" -> _is_telemetry_relevant(file_path)
      [] agent = "linting" -> _is_linting_relevant(file_path)
      [] agent = "unit_tests" -> _is_test_relevant(file_path)

\* both lists as they stand after the loop over changed_files[i..]
RECURSIVE ScopeLoop(_, _, _, _, _)
ScopeLoop(agent, files, i, relevant, ignored) ==
    IF i > Len(files) THEN <<relevant, ignored>>
    ELSE IF IsRelevant(agent, files[i])
         THEN ScopeLoop(agent, files, i + 1, Append(relevant, files[i]), ignored)
         ELSE ScopeLoop(agent, files, i + 1, relevant, Append(ignored, files[i]))

\* the loop with the else missing: every file is appended to ignored
analyze_changes_IgnoresAll(agent, files) ==
    LET lists == ScopeLoop(agent, files, 1, <<>>, <<>>)
    IN  [relevant_files |-> lists[1],
         ignored_files |-> files,
         reasoning |-> [reviewed |-> Len(lists[1]), ignored |-> Len(files)]]

\* analyze_changes of the six reviewers (architecture.py 116-143, security.py 45-74,
\* documentation.py 41-68, telemetry_metrics.py 48-75, linting.py 46-72,
\* unit_tests.py 46-74): the same loop around each reviewer's predicate
analyze_changes(agent, files) ==
    LET lists == ScopeLoop(agent, files, 1, <<>>, <<>>)
    IN  [relevant_files |-> lists[1],
         ignored_files |-> lists[2],
         reasoning |-> [reviewed |-> Len(lists[1]), ignored |-> Len(lists[2])]]

\* the orders in which list(set(files)) may come out
SetOrders(files) ==
    {order \in [1..Cardinality(Range(files)) -> Range(files)] :
        Range(order) = Range(files)}

\* changed files that each reviewer's predicate accepts some of and rejects others
ChangedPaths ==
    {<<"s", "r", "c", "/", "a", ".", "p", "y">>,
     <<"R", "E", "A", "D", "M", "E", ".", "m", "d">>,
     <<"a", "u", "t", "h", "/", "a", "p", "i", ".", "y", "m", "l">>,
     <<"t", "e", "s", "t", "s", "/", "t", ".", "t", "x", "t">>,
     <<"s", "r", "c", "/", "R", "E", "A", "D", "M", "E">>,
     <<"l", "i", "b", "s", "/", "x", ".", "m", "d">>,
     <<"x">>}

InitScope ==
    /\ RunIdle /\ DedupeIdle /\ GenIdle /\ ClientIdle /\ RiskIdle /\ ScoperIdle /\ CallsIdle /\ ContractIdle
    /\ changed_files \in SeqsUpTo(ChangedPaths, MaxChangedFiles)
    /\ scope_agent = "none"
    /\ scope = None

\* a required reviewer's analyze_changes
AnalyzeChanges ==
    /\ scope = None
    /\ \E a \in Range(REQUIRED_SUBAGENTS) :
          /\ scope_agent' = a
          /\ scope' = analyze_changes(a, changed_files)
    /\ UNCHANGED <<runVars, dedupeVars, genVars, changed_files,
                 clientVars, riskVars, scoperVars, callVars, contractVars>>

\* base.py 133-154: BaseReviewAgent.analyze_changes, every file relevant
AnalyzeChangesBase ==
    /\ scope = None
    /\ scope_agent' = "base"
    /\ \E order \in SetOrders(changed_files) :
          scope' = [relevant_files |-> order,
                    ignored_files |-> <<>>,
                    reasoning |-> [reviewed |-> Len(changed_files), ignored |-> 0]]
    /\ UNCHANGED <<runVars, dedupeVars, genVars, changed_files,
                 clientVars, riskVars, scoperVars, callVars, contractVars>>

NextScope ==
    \/ AnalyzeChanges
    \/ AnalyzeChangesBase

SpecScope == InitScope /\ [][NextScope]_vars

\* C10: for every changed-file list, the Scope returned by analyze_changes has no file
\* in both relevant_files and ignored_files, and the two together hold exactly the
\* changed files.
C10_ScopePartitionsChangedFiles ==
    scope # None =>
        /\ Range(scope.relevant_files) \cap Range(scope.ignored_files) = {}
        /\ Range(scope.relevant_files) \cup Range(scope.ignored_files) = Range(changed_files)

\* a list with a repeated path, split by a required reviewer into both lists
C10_Witness ==
    /\ scope # None
    /\ scope_agent \in Range(REQUIRED_SUBAGENTS)
    /\ \E i, j \in 1..Len(changed_files) : i # j /\ changed_files[i] = changed_files[j]
    /\ scope.relevant_files # <<>>
    /\ scope.ignored_files # <<>>

----------------------------------------------------------------------------
(* The six required reviewers as review_pr runs them: determine_checks and the *)
(* language-model path of the architecture reviewer                            *)

\* models/review.py 26-47: a Check; commands holds the files its command line names
CheckOf(name, required, files, why) ==
    [name |-> name, required |-> required, commands |-> files, why |-> why]

\* [f for f in files if f.endswith('.py')]
PyFiles(files) == SelectSeq(files, LAMBDA f : EndsWith(f, <<".", "p", "y">>))

\* determine_checks of the six reviewers (architecture.py 178-209, security.py 117-154,
\* documentation.py 94-122, telemetry_metrics.py 102-124, linting.py 91-113,
\* unit_tests.py 97-112): nothing without relevant files, else the reviewer's fixed list
determine_checks(agent, scope_) ==
    IF scope_.relevant_files = <<>> THEN <<>>
    ELSE CASE agent = "architecture" ->
                <<CheckOf("circular_dependencies", TRUE, <<>>,
                          "Detect circular import dependencies that cause runtime errors"),
                  CheckOf("interface_consistency", TRUE, scope_.relevant_files,
                          "Verify public interfaces are properly defined")>>
           [] agent = "security" ->
                <<CheckOf("secrets_scan", TRUE, scope_.relevant_files,
                          "Scan for hardcoded secrets and sensitive data"),
                  CheckOf("subprocess_injection", TRUE, scope_.relevant_files,
                          "Check for subprocess usage that may be vulnerable to injection"),
                  CheckOf("eval_usage", TRUE, scope_.relevant_files,
                          "Check for eval/exec usage that may enable code injection")>>
           [] agent = "documentation" ->
                <<CheckOf("docstring_coverage", TRUE, scope_.relevant_files,
                          "Ensure public functions have docstrings"),
                  CheckOf("readme_sync", FALSE, <<>>,
                          "Check if README exists and is updated")>>
           [] agent = "telemetry_metrics" ->
                <<CheckOf("logging_usage", TRUE, scope_.relevant_files,
                          "Ensure logging is used for observability"),
                  CheckOf("sensitive_data_logging", TRUE, scope_.relevant_files,
                          "Check for sensitive data being logged")>>
           [] agent = "linting" ->
                <<CheckOf("ruff_check", TRUE, scope_.relevant_files,
                          "Run ruff linter to check code quality"),
                  CheckOf("ruff_format", TRUE, scope_.relevant_files,
                          "Check code formatting consistency")>>
           [] agent = "unit_tests" ->
                <<CheckOf("pytest_run", TRUE, PyFiles(scope_.relevant_files),
                          "Run unit tests to verify code correctness")>>

\* base.py 93-111 with the reviewers' __init__: only ArchitectureReviewAgent takes an
\* llm_client (architecture.py 107); the other five raise TypeError on the keyword and
\* are built without one
AgentLLMClient(agent) == llm_client /\ agent = "architecture"

\* models/review.py 112: the decisions MergeGate admits
MergeGateDecisions ==
    {"approve", "approve_with_warnings", "needs_changes", "block", "merge_with_warnings"}

HasFields(d, fields) == fields \subseteq DOMAIN d

\* models/review.py 66-107: Finding(**f) validates (severity: line 76)
ValidFinding(f) ==
    /\ HasFields(f, {"id", "title", "severity", "evidence"})
    /\ f.severity \in Severities

\* models/review.py 26-47
ValidCheck(c) == HasFields(c, {"name", "required", "commands", "why"})

\* models/review.py 50-63
ValidSkip(k) == HasFields(k, {"name", "why_safe", "when_to_run"})

\* models/review.py 11-23
ValidScope(sc) == HasFields(sc, {"relevant_files", "reasoning"})

\* models/review.py 110-127
ValidMergeGate(g) == HasFields(g, {"decision"}) /\ g.decision \in MergeGateDecisions

\* a list field of a JSON object, [] when the key is absent (default_factory=list)
ListField(d, key) == IF key \in DOMAIN d THEN d[key] ELSE <<>>

\* models/review.py 130-166: ReviewOutput(**output_data) validates
ValidReviewOutput(d) ==
    /\ HasFields(d, {"agent", "severity", "scope", "merge_gate"})
    /\ d.severity \in Severities
    /\ ValidScope(d.scope)
    /\ ValidMergeGate(d.merge_gate)
    /\ \A i \in 1..Len(ListField(d, "checks")) : ValidCheck(d.checks[i])
    /\ \A i \in 1..Len(ListField(d, "skips")) : ValidSkip(d.skips[i])
    /\ \A i \in 1..Len(ListField(d, "findings")) : ValidFinding(d.findings[i])

\* the ReviewOutput built from a valid JSON object, defaults filled in
ParsedReviewOutput(d) ==
    [agent |-> d.agent,
     severity |-> d.severity,
     scope |-> [relevant_files |-> d.scope.relevant_files,
                ignored_files |-> ListField(d.scope, "ignored_files"),
                reasoning |-> d.scope.reasoning],
     checks |-> ListField(d, "checks"),
     skips |-> ListField(d, "skips"),
     findings |-> ListField(d, "findings"),
     merge_gate |-> [decision |-> d.merge_gate.decision,
                     must_fix |-> ListField(d.merge_gate, "must_fix"),
                     should_fix |-> ListField(d.merge_gate, "should_fix"),
                     notes_for_coding_agent |->
                        ListField(d.merge_gate, "notes_for_coding_agent")]]

\* a response that is not a valid ReviewOutput taken for a review without findings
review_with_llm_EmptyOnError(agent, response) ==
    IF response.kind = "object" /\ ValidReviewOutput(response.data)
    THEN [raised |-> FALSE, output |-> ParsedReviewOutput(response.data)]
    ELSE [raised |-> FALSE, output |-> ReviewOutput(agent, NoFilesScope, <<>>, <<>>, <<>>)]

\* architecture.py 238-250: json.loads raises JSONDecodeError on text that is not JSON
\* (re-raised as ValueError), ReviewOutput(**output_data) raises TypeError on JSON
\* that is not an object and ValidationError on an object that does not validate
review_with_llm(agent, response) ==
    IF response.kind = "object" /\ ValidReviewOutput(response.data)
    THEN [raised |-> FALSE, output |-> ParsedReviewOutput(response.data)]
    ELSE [raised |-> TRUE, output |-> None]

----------------------------------------------------------------------------
(* review_pr over changed files and a diff, with and without a language-model client *)

\* most changed files handed to review_pr
MaxReviewFiles == 2

ReviewPaths ==
    {<<"a", "u", "t", "h", "/", "l", "o", "g", "i", "n", ".", "p", "y">>,
     <<"R", "E", "A", "D", "M", "E", ".", "m", "d">>,
     <<"s", "r", "c", "/", "a", ".", "p", "y">>}

\* the empty diff, and one adding a line that assigns a password literal
SecretDiff == <<"+", "p", "a", "s", "s", "w", "o", "r", "d", " ", "=", " ", "\"", "h", "u", "n", "t", "e", "r", "2", "\"">>

ReviewDiffs == {<<>>, SecretDiff}

LLMGate(decision, must_fix) ==
    [decision |-> decision, must_fix |-> must_fix, should_fix |-> <<>>,
     notes_for_coding_agent |-> <<>>]

\* what the language model may answer: text that is not JSON, JSON that is not an
\* object, objects that miss a required field or carry a value outside an enumeration,
\* and objects that validate
LLMResponses ==
    {[kind |-> "text", data |-> None],
     [kind |-> "array", data |-> None],
     [kind |-> "object",
      data |-> [agent |-> "architecture", scope |-> NoFilesScope,
                merge_gate |-> LLMGate("approve", <<>>)]],
     [kind |-> "object",
      data |-> [agent |-> "architecture", severity |-> "high", scope |-> NoFilesScope,
                merge_gate |-> LLMGate("approve", <<>>)]],
     [kind |-> "object",
      data |-> [agent |-> "architecture", severity |-> "warning", scope |-> NoFilesScope,
                findings |-> <<FindingOf("A1", TitleA, EvidenceC, "info")>>,
                merge_gate |-> LLMGate("approve_with_warnings", <<>>)]],
     [kind |-> "object",
      data |-> [agent |-> "architecture", severity |-> "warning", scope |-> NoFilesScope,
                findings |-> <<[id |-> "A1", title |-> TitleA, severity |-> "warning"]>>,
                merge_gate |-> LLMGate("approve_with_warnings", <<>>)]],
     [kind |-> "object",
      data |-> [agent |-> "architecture", severity |-> "critical", scope |-> NoFilesScope,
                merge_gate |-> LLMGate("reject", <<>>)]],
     [kind |-> "object",
      data |-> [agent |-> "architecture", severity |-> "merge", scope |-> NoFilesScope,
                findings |-> <<FindingOf("A1", TitleA, EvidenceC, "merge")>>,
                merge_gate |-> LLMGate("approve", <<>>)]],
     [kind |-> "object",
      data |-> [agent |-> "architecture", severity |-> "blocking", scope |-> NoFilesScope,
                checks |-> <<CheckOf("secrets_scan", FALSE, <<>>,
                                     "Configuration may be hard-coded in business logic")>>,
                skips |-> <<[name |-> "integration_tests",
                             why_safe |-> "No IO boundary changed",
                             when_to_run |-> "When contracts or IO boundaries change"]>>,
                findings |-> <<FindingOf("A2", TitleAB, EvidenceC, "blocking")>>,
                merge_gate |-> LLMGate("block", <<"A2">>)]],
     [kind |-> "object",
      data |-> [agent |-> "architecture", severity |-> "merge", scope |-> NoFilesScope,
                merge_gate |-> LLMGate("approve", <<>>)]]}

\* orchestrator.py 135-139 with _run_subagent 183-190: a reviewer without a client
\* scopes the changed files, proposes its checks and reports no finding
RunSubagentHeuristic ==
    /\ pc = "RUNNING"
    /\ idx <= Len(REQUIRED_SUBAGENTS)
    /\ ~AgentLLMClient(REQUIRED_SUBAGENTS[idx])
    /\ LET agent == REQUIRED_SUBAGENTS[idx]
           scope_ == analyze_changes(agent, changed_files)
           checks == determine_checks(agent, scope_)
       IN  /\ subagent_results' =
                 Append(subagent_results, ReviewOutput(agent, scope_, checks, <<>>, <<>>))
           /\ outcomes' = Append(outcomes, [agent |-> agent, raised |-> FALSE,
                                            findings |-> <<>>, checks |-> checks,
                                            skips |-> <<>>])
    /\ idx' = idx + 1
    /\ UNCHANGED <<pc, rollup, output, dedupeVars, genVars, scopeVars,
                 clientVars, riskVars, scoperVars, callVars, contractVars>>

\* orchestrator.py 135-142 with _run_subagent 181-182: a reviewer with a client asks
\* the language model; its ReviewOutput is appended, or its exception logged and the
\* reviewer skipped
RunSubagentLLM ==
    /\ pc = "RUNNING"
    /\ idx <= Len(REQUIRED_SUBAGENTS)
    /\ AgentLLMClient(REQUIRED_SUBAGENTS[idx])
    /\ \E response \in LLMResponses :
          LET agent == REQUIRED_SUBAGENTS[idx]
              result == review_with_llm(agent, response)
          IN  IF result.raised
              THEN /\ subagent_results' = subagent_results
                   /\ outcomes' = Append(outcomes, [agent |-> agent, raised |-> TRUE,
                                                    findings |-> <<>>, checks |-> <<>>,
                                                    skips |-> <<>>, response |-> response])
              ELSE /\ subagent_results' = Append(subagent_results, result.output)
                   /\ outcomes' = Append(outcomes, [agent |-> agent, raised |-> FALSE,
                                                    findings |-> result.output.findings,
                                                    checks |-> result.output.checks,
                                                    skips |-> result.output.skips,
                                                    response |-> response])
    /\ idx' = idx + 1
    /\ UNCHANGED <<pc, rollup, output, dedupeVars, genVars, scopeVars,
                 clientVars, riskVars, scoperVars, callVars, contractVars>>

InitReview ==
    /\ RunIdle /\ DedupeIdle /\ GenIdle /\ RiskIdle /\ ScoperIdle /\ CallsIdle /\ ContractIdle
    /\ changed_files \in SeqsUpTo(ReviewPaths, MaxReviewFiles)
    /\ scope_agent = "none"
    /\ scope = None
    /\ diff \in ReviewDiffs
    /\ llm_client \in BOOLEAN

NextReview ==
    \/ StartReview
    \/ RunSubagentHeuristic
    \/ RunSubagentLLM
    \/ RunSubagentRaises
    \/ Aggregate
    \/ Finish

SpecReview == InitReview /\ [][NextReview]_vars

----------------------------------------------------------------------------
(* Claims about review_pr over changed files, checked under SpecReview *)

\* the checks and skips proposed by the reviewers that returned, in invocation order
ProposedChecks == Flatten(MapSeq(Returned, LAMBDA o : o.checks))
ProposedSkips == Flatten(MapSeq(Returned, LAMBDA o : o.skips))

Unscoped(c) == CheckOf(c.name, c.required, c.commands, c.why)

AgentOf(r) == r.agent

\* C11: the recommended checks of the tool plan are, in reviewer-invocation order, all
\* the checks proposed by the reviewers that returned (as many as they proposed, equal
\* names kept), each scoped to the full changed-file list; the skipped checks are all
\* their skips; a reviewer that raised contributes none.
C11_ToolPlanConcatenates ==
    pc = "DONE" =>
        /\ Len(output.tool_plan.recommended_checks) = Len(ProposedChecks)
        /\ MapSeq(output.tool_plan.recommended_checks, Unscoped) = ProposedChecks
        /\ \A i \in 1..Len(output.tool_plan.recommended_checks) :
              output.tool_plan.recommended_checks[i].scope = changed_files
        /\ output.tool_plan.skipped_checks = ProposedSkips

\* two reviewers proposed a check of the same name, one proposed a skip, one raised
C11_Witness ==
    /\ pc = "DONE"
    /\ \E i, j \in 1..Len(output.tool_plan.recommended_checks) :
          /\ i < j
          /\ output.tool_plan.recommended_checks[i].name =
                output.tool_plan.recommended_checks[j].name
          /\ output.tool_plan.recommended_checks[i].why #
                output.tool_plan.recommended_checks[j].why
    /\ output.tool_plan.skipped_checks # <<>>
    /\ \E i \in 1..Len(outcomes) : outcomes[i].raised
    /\ changed_files # <<>>

\* C12: whichever reviewers return or raise, review_pr returns an OrchestratorOutput
\* with summary, tool_plan, rollup and merge_gate, and its subagent_results holds one
\* entry for each reviewer that returned, in invocation order, and none for a reviewer
\* that raised.
C12_OutputAlwaysComplete ==
    pc = "DONE" =>
        /\ {"summary", "tool_plan", "rollup", "merge_gate"} \subseteq DOMAIN output
        /\ output.summary.risk_level \in {"low", "medium", "high"}
        /\ output.rollup.final_decision \in MergeGateDecisions
        /\ output.merge_gate.decision \in MergeGateDecisions
        /\ Len(outcomes) = Len(REQUIRED_SUBAGENTS)
        /\ MapSeq(output.subagent_results, AgentOf) = MapSeq(Returned, AgentOf)

\* some reviewers raised, among them the first and the last, and others returned
C12_Witness ==
    /\ pc = "DONE"
    /\ outcomes[1].raised
    /\ outcomes[Len(REQUIRED_SUBAGENTS)].raised
    /\ Len(output.subagent_results) = 3

\* the contract of a reviewer's output: the required fields, and every enumerated
\* value within its enumeration, finding severities within warning, critical, blocking
MeetsContract(d) ==
    /\ HasFields(d, {"agent", "severity", "scope", "merge_gate"})
    /\ d.severity \in Severities
    /\ HasFields(d.scope, {"relevant_files", "reasoning"})
    /\ HasFields(d.merge_gate, {"decision"})
    /\ d.merge_gate.decision \in MergeGateDecisions
    /\ \A i \in 1..Len(ListField(d, "findings")) :
          /\ HasFields(d.findings[i], {"id", "title", "severity", "evidence"})
          /\ d.findings[i].severity \in FindingSeverities

\* the reviewer of outcome o left nothing in the run: no entry in subagent_results,
\* no finding in the rollup, no check or skip
Discarded(o) ==
    /\ \A r \in 1..Len(output.subagent_results) : output.subagent_results[r].agent # o.agent
    /\ \A i \in 1..Len(output.rollup.findings) :
          o.agent \notin Range(output.rollup.findings[i].source_agents)
    /\ o.checks = <<>>
    /\ o.skips = <<>>

\* C13: a reviewer whose output object violates the contract (a required field
\* missing, a value outside its enumeration, a finding severity other than warning,
\* critical or blocking) is discarded whole, as if it had failed.
C13_ContractViolationDiscardsReviewer ==
    pc = "DONE" =>
        \A i \in 1..Len(outcomes) :
            (/\ "response" \in DOMAIN outcomes[i]
             /\ outcomes[i].response.kind = "object"
             /\ ~MeetsContract(outcomes[i].response.data))
                => Discarded(outcomes[i])

\* C14: a reviewer on the language-model path whose response is not parseable JSON or
\* does not validate as a ReviewOutput fails and is skipped: no entry in
\* subagent_results, nothing in the rollup, never a review with no findings.
C14_UnparseableResponseIsFailure ==
    pc = "DONE" =>
        \A i \in 1..Len(outcomes) :
            (/\ "response" \in DOMAIN outcomes[i]
             /\ \/ outcomes[i].response.kind # "object"
                \/ ~ValidReviewOutput(outcomes[i].response.data))
                => outcomes[i].raised /\ Discarded(outcomes[i])

\* the model answered with text that is not JSON; the other five reviewers are in
\* subagent_results
C14_Witness ==
    /\ pc = "DONE"
    /\ \E i \in 1..Len(outcomes) :
          /\ "response" \in DOMAIN outcomes[i]
          /\ outcomes[i].response.kind = "text"
    /\ Len(output.subagent_results) = 5

\* C15: when auth/login.py is among the changed files and the diff holds a hardcoded
\* password, the security reviewer's output has a blocking finding, the final decision
\* is block and must_fix holds that finding's id.
C15_HardcodedSecretBlocks ==
    (/\ pc = "DONE"
     /\ <<"a", "u", "t", "h", "/", "l", "o", "g", "i", "n", ".", "p", "y">> \in Range(changed_files)
     /\ Contains(Lower(diff), <<"p", "a", "s", "s", "w", "o", "r", "d", " ", "=", " ", "\"">>)
     /\ \A i \in 1..Len(outcomes) : ~outcomes[i].raised)
        => \E r \in 1..Len(output.subagent_results) :
              /\ output.subagent_results[r].agent = "security"
              /\ \E n \in 1..Len(output.subagent_results[r].findings) :
                    /\ output.subagent_results[r].findings[n].severity = "blocking"
                    /\ output.subagent_results[r].findings[n].id \in
                          Range(output.merge_gate.must_fix)
              /\ output.rollup.final_decision = "block"

----------------------------------------------------------------------------
(* agents/review/agents/diff_scoper.py: DiffScoperReviewer *)

\* diff_scoper.py 79-80: the lines that start with sign but not with three of them
CountSigned(diff_lines, sign) ==
    Cardinality({i \in 1..Len(diff_lines) :
                    /\ StartsWith(diff_lines[i], <<sign>>)
                    /\ ~StartsWith(diff_lines[i], <<sign, sign, sign>>)})

AnyFile(files, Test(_)) == \E i \in 1..Len(files) : Test(files[i])

config_suffixes ==
    <<<<".", "y", "m", "l">>,
      <<".", "y", "a", "m", "l">>,
      <<".", "j", "s", "o", "n">>,
      <<".", "t", "o", "m", "l">>,
      <<".", "i", "n", "i">>,
      <<"c", "o", "n", "f", "i", "g", ".", "*">>>>

docs_suffixes ==
    <<<<".", "m", "d">>,
      <<".", "t", "x", "t">>,
      <<".", "r", "s", "t">>,
      <<"d", "o", "c", "s", "/">>>>

critical_tokens ==
    <<<<"/">>,
      <<"l", "i", "b", "/">>,
      <<"c", "o", "r", "e", "/">>,
      <<"a", "p", "i", "/">>,
      <<"d", "b", "/">>>>

\* diff_scoper.py 84-94
critical_paths(files) ==
    [auth |-> AnyFile(files, LAMBDA f : Contains(Lower(f), <<"a", "u", "t", "h">>)),
     security |-> AnyFile(files, LAMBDA f : Contains(Lower(f), <<"s", "e", "c", "u", "r", "i", "t", "y">>)),
     config |-> AnyFile(files, LAMBDA f : \E k \in 1..Len(config_suffixes) :
                                             EndsWith(f, config_suffixes[k])),
     docs |-> AnyFile(files, LAMBDA f : \E k \in 1..Len(docs_suffixes) :
                                           EndsWith(f, docs_suffixes[k])),
     tests |-> AnyFile(files, LAMBDA f : Contains(Lower(f), <<"t", "e", "s", "t">>)),
     critical |-> AnyFile(files, LAMBDA f : ContainsAny(Lower(f), critical_tokens))]

\* the volume triggers with the comparisons including the thresholds
_classify_risk_Inclusive(num_files, code_changes, flags) ==
    IF flags.security \/ flags.auth \/ code_changes >= 500 \/ num_files >= 20 THEN "high"
    ELSE IF flags.config \/ code_changes >= 100 \/ num_files >= 5 THEN "medium"
    ELSE "low"

\* the file-count trigger of high risk with its comparison reversed
_classify_risk_Reversed(num_files, code_changes, flags) ==
    IF flags.security \/ flags.auth \/ code_changes > 500 \/ num_files < 20 THEN "high"
    ELSE IF flags.config \/ code_changes > 100 \/ num_files > 5 THEN "medium"
    ELSE "low"

\* diff_scoper.py 160-198
_classify_risk(num_files, code_changes, flags) ==
    IF flags.security \/ flags.auth \/ code_changes > 500 \/ num_files > 20 THEN "high"
    ELSE IF flags.config \/ code_changes > 100 \/ num_files > 5 THEN "medium"
    ELSE "low"

\* diff_scoper.py 217-242: the routing table in insertion order; the docs entry needs
\* len(changed_files) == critical_paths.get('docs_count', 0), a key that is never set
routing_relevance(files, flags, risk_level) ==
    SelectSeq(<<[agent |-> "security", routed |-> flags.security \/ flags.auth],
                [agent |-> "devops", routed |-> flags.config],
                [agent |-> "architecture", routed |-> flags.critical],
                [agent |-> "code",
                 routed |-> AnyFile(files, LAMBDA f : EndsWith(f, <<".", "p", "y">>))],
                [agent |-> "docs", routed |-> flags.docs /\ Len(files) = 0]>>,
              LAMBDA entry : entry.routed)

\* the reviewer names of the routing table as strings of characters
AgentChars(agent) ==
    CASE agent = "security" -> <<"s", "e", "c", "u", "r", "i", "t", "y">>
      [] agent = "devops" -> <<"d", "e", "v", "o", "p", "s">>
      [] agent = "architecture" -> <<"a", "r", "c", "h", "i", "t", "e", "c", "t", "u", "r", "e">>
      [] agent = "code" -> <<"c", "o", "d", "e">>
      [] agent = "docs" -> <<"d", "o", "c", "s">>

evidence_patterns ==
    <<<<"s", "e", "c", "u", "r", "i", "t", "y">>,
      <<"a", "u", "t", "h">>,
      <<"c", "o", "n", "f", "i", "g">>,
      <<"d", "o", "c", "s">>,
      <<".", "p", "y">>>>

\* diff_scoper.py 247-253: the first file naming the reviewer or an evidence pattern,
\* else the first changed file, else "unknown"
evidence_file(files, agent) ==
    LET matches == SelectSeq(files,
                             LAMBDA f : \/ Contains(Lower(f), AgentChars(agent))
                                        \/ ContainsAny(Lower(f), evidence_patterns))
    IN  IF matches # <<>> THEN matches[1]
        ELSE IF files # <<>> THEN files[1]
        ELSE <<"u", "n", "k", "n", "o", "w", "n">>

\* diff_scoper.py 200-283
_create_routing_findings(files, flags, risk_level) ==
    MapSeq(routing_relevance(files, flags, risk_level),
           LAMBDA entry :
              [id |-> <<"route", entry.agent>>,
               title |-> <<"Route to Reviewer", entry.agent>>,
               severity |-> IF risk_level = "high" THEN "warning" ELSE "critical",
               owner |-> IF entry.agent \in {"dev", "docs", "devops", "security"}
                         THEN entry.agent ELSE "dev",
               evidence |-> [file |-> evidence_file(files, entry.agent)]])
    \o (IF risk_level = "high"
        THEN <<[id |-> <<"risk-classification">>,
                title |-> <<"High Risk Change Detected">>,
                severity |-> "critical",
                owner |-> "dev",
                evidence |-> [files_changed |-> Len(files), risk_level |-> risk_level]]>>
        ELSE <<>>)

\* diff_scoper.py 285-351
_create_minimal_checks(risk_level, flags, files) ==
    <<CheckOf("format_check", FALSE, <<>>, "Quick format validation")>>
    \o (IF /\ risk_level \in {"medium", "high"}
           /\ AnyFile(files, LAMBDA f : EndsWith(f, <<".", "p", "y">>))
        THEN <<CheckOf("lint_check", FALSE, <<>>, "Code quality validation"),
               CheckOf("type_check", FALSE, <<>>, "Type safety validation")>>
        ELSE <<>>)
    \o (IF risk_level = "high"
        THEN <<CheckOf("security_scan", TRUE, <<>>,
                       "Security vulnerability scan for high-risk changes")>>
             \o (IF flags.tests
                 THEN <<CheckOf("test_suite", TRUE, <<>>,
                                "Full test suite with coverage for high-risk changes")>>
                 ELSE <<>>)
        ELSE <<>>)

\* the map with high risk reported as blocking
severity_map_HighBlocks(risk_level) ==
    CASE risk_level = "high" -> "blocking"
      [] risk_level = "medium" -> "warning"
      [] risk_level = "low" -> "merge"
      [] OTHER -> "warning"

\* diff_scoper.py 128-133
severity_map(risk_level) ==
    CASE risk_level = "high" -> "critical"
      [] risk_level = "medium" -> "warning"
      [] risk_level = "low" -> "merge"
      [] OTHER -> "warning"

\* diff_scoper.py 421-452: the rationale, and the routing table when it has entries
_build_routing_notes(risk_level, flags) ==
    LET routing_table ==
            SelectSeq(<<[agent |-> "security", routed |-> flags.security \/ flags.auth],
                        [agent |-> "devops", routed |-> flags.config],
                        [agent |-> "architecture", routed |-> flags.critical],
                        [agent |-> "code", routed |-> risk_level \in {"medium", "high"}]>>,
                      LAMBDA entry : entry.routed)
    IN  <<[risk_rationale |-> risk_level]>>
        \o (IF routing_table # <<>>
            THEN <<[routing |-> MapSeq(routing_table, LAMBDA entry : entry.agent)]>>
            ELSE <<>>)

\* diff_scoper.py 59-158; diff_lines is context.diff.strip().split('\n')
DiffScoperReview(files, diff_lines) ==
    LET total_code_changes == CountSigned(diff_lines, "+") + CountSigned(diff_lines, "-")
        flags == critical_paths(files)
        risk_level == _classify_risk(Len(files), total_code_changes, flags)
    IN  [agent |-> "diff_scoper",
         summary |-> [risk_level |-> risk_level,
                      num_files |-> Len(files),
                      added_lines |-> CountSigned(diff_lines, "+"),
                      removed_lines |-> CountSigned(diff_lines, "-")],
         severity |-> severity_map(risk_level),
         scope |-> [relevant_files |-> files, ignored_files |-> <<>>,
                    reasoning |-> [reviewed |-> Len(files), ignored |-> 0]],
         checks |-> _create_minimal_checks(risk_level, flags, files),
         skips |-> <<>>,
         findings |-> _create_routing_findings(files, flags, risk_level),
         merge_gate |-> [decision |-> "approve", must_fix |-> <<>>, should_fix |-> <<>>,
                         notes_for_coding_agent |->
                            _build_routing_notes(risk_level, flags)]]

----------------------------------------------------------------------------
(* DiffScoperReviewer.review applied to bounded ReviewContexts *)

\* most distinct named paths in a ReviewContext, ahead of the filler files
MaxScoperFiles == 2

\* paths that set each critical-path flag, and one that sets none
ScoperPaths ==
    {<<"a", "u", "t", "h", "/", "l", "o", "g", "i", "n", ".", "p", "y">>,
     <<"s", "e", "c", "u", "r", "i", "t", "y", ".", "t", "x", "t">>,
     <<"s", "e", "t", "t", "i", "n", "g", "s", ".", "y", "m", "l">>,
     <<"R", "E", "A", "D", "M", "E", ".", "m", "d">>,
     <<"t", "e", "s", "t", "s", "/", "t", "e", "s", "t", "_", "a", ".", "p", "y">>,
     <<"n", "o", "t", "e", "s">>}

\* a path that sets no flag, repeated to reach the file-count thresholds
FillerPath == <<"x">>

FillerCounts == {0, 5, 20, 25}

\* added and removed line counts around the thresholds on changed lines
LineVolumes == {<<0, 0>>, <<1, 0>>, <<60, 40>>, <<60, 41>>, <<300, 200>>, <<300, 201>>,
                <<600, 0>>}

\* a unified diff: the two file headers, a context line, then added and removed lines
DiffLines(added, removed) ==
    <<<<"-", "-", "-", " ", "a", "/", "x">>, <<"+", "+", "+", " ", "b", "/", "x">>, <<" ", "y">>>>
    \o Repeat(<<"+", "z">>, added) \o Repeat(<<"-", "z">>, removed)

InitScoper ==
    /\ RunIdle /\ DedupeIdle /\ GenIdle /\ ScopeIdle /\ ClientIdle /\ RiskIdle /\ CallsIdle /\ ContractIdle
    /\ \E named \in SeqsUpTo(ScoperPaths, MaxScoperFiles), k \in FillerCounts,
          v \in LineVolumes :
          context = [changed_files |-> named \o Repeat(FillerPath, k),
                     diff |-> DiffLines(v[1], v[2])]
    /\ scoper_output = None

\* diff_scoper.py 59-158
ScoperReview ==
    /\ scoper_output = None
    /\ scoper_output' = DiffScoperReview(context.changed_files, context.diff)
    /\ UNCHANGED <<runVars, dedupeVars, genVars, scopeVars, clientVars, riskVars, context,
                 callVars, contractVars>>

NextScoper == ScoperReview

SpecScoper == InitScoper /\ [][NextScoper]_vars

\* C16: for every ReviewContext the output of DiffScoperReviewer.review is advisory:
\* the decision is approve, must_fix is empty, and neither the overall severity nor
\* any finding is blocking.
C16_ScoperIsAdvisory ==
    scoper_output # None =>
        /\ scoper_output.merge_gate.decision = "approve"
        /\ scoper_output.merge_gate.must_fix = <<>>
        /\ scoper_output.severity # "blocking"
        /\ \A i \in 1..Len(scoper_output.findings) :
              scoper_output.findings[i].severity # "blocking"

\* a high-risk change to an auth file with routing findings, still approved
C16_Witness ==
    /\ scoper_output # None
    /\ scoper_output.summary.risk_level = "high"
    /\ \E i \in 1..Len(scoper_output.findings) :
          scoper_output.findings[i].id = <<"route", "security">>
    /\ scoper_output.merge_gate.decision = "approve"

\* C23: for every ReviewContext the overall severity of the output of
\* DiffScoperReviewer.review is the maximum severity among its findings
\* (warning < critical < blocking), and merge when it has no finding.
C23_ScoperSeverityIsMax ==
    scoper_output # None =>
        scoper_output.severity = MaxSeverity(scoper_output.findings)

----------------------------------------------------------------------------
(* _classify_risk applied to file counts, line counts and flags, twice *)

\* file counts and changed-line counts on both sides of every threshold
FileCounts == {0, 1, 5, 6, 7, 20, 21, 22, 25}
LineCounts == {0, 1, 100, 101, 102, 500, 501, 502, 600}

\* the flags _classify_risk reads
RiskFlags == [security : BOOLEAN, auth : BOOLEAN, config : BOOLEAN]

InitRisk ==
    /\ RunIdle /\ DedupeIdle /\ GenIdle /\ ScopeIdle /\ ClientIdle /\ ScoperIdle /\ CallsIdle /\ ContractIdle
    /\ risk_args \in [num_files : FileCounts, code_changes : LineCounts,
                      more_files : FileCounts, more_changes : LineCounts,
                      critical_paths : RiskFlags]
    /\ risk_levels = None

\* diff_scoper.py 97-101: the call, on the first counts and on the second
ClassifyRisk ==
    /\ risk_levels = None
    /\ risk_levels' =
          [first |-> _classify_risk(risk_args.num_files, risk_args.code_changes,
                                    risk_args.critical_paths),
           second |-> _classify_risk(risk_args.more_files, risk_args.more_changes,
                                     risk_args.critical_paths)]
    /\ UNCHANGED <<runVars, dedupeVars, genVars, scopeVars, clientVars, risk_args,
                 scoperVars, callVars, contractVars>>

NextRisk == ClassifyRisk

SpecRisk == InitRisk /\ [][NextRisk]_vars

\* C17: the risk is high iff security-flagged or auth-flagged or more than 500 changed
\* lines or more than 20 files; otherwise medium iff config-flagged or more than 100
\* changed lines or more than 5 files; otherwise low; 25 files and 600 lines without
\* flags is high.
C17_RiskThresholds ==
    risk_levels # None =>
        LET n == risk_args.num_files
            c == risk_args.code_changes
            flags == risk_args.critical_paths
            isHigh == flags.security \/ flags.auth \/ c > 500 \/ n > 20
            isMedium == flags.config \/ c > 100 \/ n > 5
        IN  /\ (risk_levels.first = "high") <=> isHigh
            /\ (risk_levels.first = "medium") <=> (~isHigh /\ isMedium)
            /\ (risk_levels.first = "low") <=> (~isHigh /\ ~isMedium)
            /\ (n = 25 /\ c = 600 /\ ~flags.security /\ ~flags.auth /\ ~flags.config)
                  => risk_levels.first = "high"

\* 25 files and 600 changed lines without flags, classified
C17_Witness ==
    /\ risk_levels # None
    /\ risk_args.num_files = 25
    /\ risk_args.code_changes = 600
    /\ risk_args.critical_paths = [security |-> FALSE, auth |-> FALSE, config |-> FALSE]
    /\ risk_levels.first = "high"

RiskRank(r) ==
    CASE r = "low" -> 0
      [] r = "medium" -> 1
      [] r = "high" -> 2

\* C18: with the flags fixed, more files and more changed lines never lower the risk:
\* for n1 <= n2 and c1 <= c2, risk(n1, c1, flags) <= risk(n2, c2, flags) under
\* low < medium < high.
C18_RiskMonotonic ==
    (/\ risk_levels # None
     /\ risk_args.num_files <= risk_args.more_files
     /\ risk_args.code_changes <= risk_args.more_changes)
        => RiskRank(risk_levels.first) <= RiskRank(risk_levels.second)

\* a low-risk change that grew in files only into a high-risk one
C18_Witness ==
    /\ risk_levels # None
    /\ risk_args.num_files < risk_args.more_files
    /\ risk_args.code_changes = risk_args.more_changes
    /\ risk_levels.first = "low"
    /\ risk_levels.second = "high"

----------------------------------------------------------------------------
(* The order of a run of review_pr, checked under Spec *)

\* the steps pc may take
RunSteps ==
    {<<"NOT_STARTED", "RUNNING">>, <<"RUNNING", "AGGREGATED">>, <<"AGGREGATED", "DONE">>}

\* C20: in a run of review_pr every required reviewer is invoked exactly once, in the
\* order of REQUIRED_SUBAGENTS, also after an earlier reviewer raised; reviewers are
\* invoked only while RUNNING; aggregation starts only when each of them has returned
\* or been skipped; pc moves NOT_STARTED -> RUNNING -> AGGREGATED -> DONE and in no
\* other way; the rollup exists from AGGREGATED on.
C20_RunStateMachine ==
    /\ [](pc = "NOT_STARTED" => outcomes = <<>>)
    /\ [](pc \in {"AGGREGATED", "DONE"} =>
             /\ MapSeq(outcomes, AgentOf) = REQUIRED_SUBAGENTS
             /\ rollup # None)
    /\ [](pc \in {"NOT_STARTED", "RUNNING"} => rollup = None)
    /\ [][pc' # pc => <<pc, pc'>> \in RunSteps]_vars
    /\ [][outcomes' # outcomes =>
             /\ pc = "RUNNING" /\ pc' = "RUNNING"
             /\ Len(outcomes') = Len(outcomes) + 1
             /\ SubSeq(outcomes', 1, Len(outcomes)) = outcomes
             /\ outcomes'[Len(outcomes')].agent = REQUIRED_SUBAGENTS[Len(outcomes')]]_vars

\* a finished run whose first two reviewers raised and whose last reviewer returned a
\* finding
C20_Witness ==
    /\ pc = "DONE"
    /\ outcomes[1].raised
    /\ outcomes[2].raised
    /\ outcomes[Len(REQUIRED_SUBAGENTS)].findings # <<>>

----------------------------------------------------------------------------
(* Several review_pr calls on one PRReviewOrchestrator. A coroutine runs until *)
(* it awaits something that is not ready: review_pr is suspended only while    *)
(* the architecture reviewer awaits llm_client.chat_completion (base.py 85);   *)
(* the reviewers built without a client never suspend (_run_subagent 183-190). *)
(* self.subagent_results is an attribute of the orchestrator, read again at     *)
(* every use (orchestrator.py 125, 139, 144, 145, 161, 407).                    *)

\* the review_pr calls made on the orchestrator
NumCalls == 2

Calls == 1..NumCalls

\* the changed files a call may be given
CallFiles ==
    {<<<<"a", "u", "t", "h", "/", "l", "o", "g", "i", "n", ".", "p", "y">>>>,
     <<<<"R", "E", "A", "D", "M", "E", ".", "m", "d">>>>}

\* what the language model may answer to a call: text that is not JSON, and the
\* objects that meet the contract
CallResponses ==
    {r \in LLMResponses : r.kind = "text" \/ (r.kind = "object" /\ MeetsContract(r.data))}

NotCalled ==
    [pc |-> "NOT_STARTED", changed_files |-> <<>>, produced |-> <<>>, output |-> None,
     overlapped |-> FALSE, client |-> "idle"]

\* orchestrator.py 127-142 from reviewer i on, for reviewers that take the branch of
\* _run_subagent 183-190: each ReviewOutput is appended to self.subagent_results
RECURSIVE RunHeuristics(_, _, _)
RunHeuristics(files, i, results) ==
    IF i > Len(REQUIRED_SUBAGENTS) THEN results
    ELSE LET agent == REQUIRED_SUBAGENTS[i]
             scope_ == analyze_changes(agent, files)
         IN  RunHeuristics(files, i + 1,
                           Append(results,
                                  ReviewOutput(agent, scope_, determine_checks(agent, scope_),
                                               <<>>, <<>>)))

\* orchestrator.py 144-172 on self.subagent_results as it is when the loop ends
ReviewPrReturn(files, results) ==
    BuildOutput(files, diff, results, _aggregate_results(results).findings)

Awaiting(c) == calls[c].pc = "AWAITING"

\* the calls are numbered in the order in which they start
NextToStart(c) ==
    /\ calls[c].pc = "NOT_STARTED"
    /\ \A d \in 1..(c - 1) : calls[d].pc # "NOT_STARTED"

\* a call that starts leaving the results of the earlier calls in self.subagent_results
ReviewPrStart_KeepsResults ==
    /\ llm_client
    /\ \E c \in Calls, files \in CallFiles :
          /\ NextToStart(c)
          /\ subagent_results' = subagent_results
          /\ calls' = [d \in Calls |->
                          IF d = c
                          THEN [calls[c] EXCEPT !.pc = "AWAITING", !.changed_files = files,
                                                !.client = "pending",
                                                !.overlapped = \E e \in Calls : Awaiting(e)]
                          ELSE [calls[d] EXCEPT !.overlapped = @ \/ Awaiting(d)]]
    /\ UNCHANGED <<pc, idx, outcomes, rollup, output, dedupeVars, genVars, scopeVars,
                 clientVars, riskVars, scoperVars, contractVars>>

\* orchestrator.py 123-138 with a client: self.subagent_results = [], then the
\* architecture reviewer (architecture.py 234) awaits the language model. A call that
\* starts while another one is suspended overlaps with it.
ReviewPrStart ==
    /\ llm_client
    /\ \E c \in Calls, files \in CallFiles :
          /\ NextToStart(c)
          /\ subagent_results' = <<>>
          /\ calls' = [d \in Calls |->
                          IF d = c
                          THEN [calls[c] EXCEPT !.pc = "AWAITING", !.changed_files = files,
                                                !.client = "pending",
                                                !.overlapped = \E e \in Calls : Awaiting(e)]
                          ELSE [calls[d] EXCEPT !.overlapped = @ \/ Awaiting(d)]]
    /\ UNCHANGED <<pc, idx, outcomes, rollup, output, dedupeVars, genVars, scopeVars,
                 clientVars, riskVars, scoperVars, contractVars>>

\* orchestrator.py 123-172 without a client: no reviewer suspends, the call runs
\* from its first line to its return
ReviewPrNoClient ==
    /\ ~llm_client
    /\ \E c \in Calls, files \in CallFiles :
          /\ NextToStart(c)
          /\ LET results == RunHeuristics(files, 1, <<>>)
             IN  /\ subagent_results' = results
                 /\ calls' = [calls EXCEPT ![c] =
                                 [@ EXCEPT !.pc = "DONE", !.changed_files = files,
                                           !.produced = results,
                                           !.output = ReviewPrReturn(files, results)]]
    /\ UNCHANGED <<pc, idx, outcomes, rollup, output, dedupeVars, genVars, scopeVars,
                 clientVars, riskVars, scoperVars, contractVars>>

\* architecture.py 234-250, then orchestrator.py 139-172: the language model answers
\* call c; the architecture review is appended to self.subagent_results or its
\* exception is logged, the five other reviewers run, and the call returns
LLMRespondsTo(c) ==
    /\ Awaiting(c)
    /\ calls[c].client = "pending"
    /\ LET files == calls[c].changed_files
           others == RunHeuristics(files, 2, <<>>)
       IN  \E response \in CallResponses :
          LET result == review_with_llm(REQUIRED_SUBAGENTS[1], response)
              appended == IF result.raised THEN subagent_results
                          ELSE Append(subagent_results, result.output)
              results == appended \o others
          IN  /\ subagent_results' = results
              /\ calls' = [calls EXCEPT ![c] =
                              [@ EXCEPT !.pc = "DONE", !.client = "answered",
                                        !.produced = SubSeq(results, Len(subagent_results) + 1,
                                                            Len(results)),
                                        !.output = ReviewPrReturn(files, results)]]
    /\ UNCHANGED <<pc, idx, outcomes, rollup, output, dedupeVars, genVars, scopeVars,
                 clientVars, riskVars, scoperVars, contractVars>>

LLMResponds == \E c \in Calls : LLMRespondsTo(c)

\* the language model never answers call c: chat_completion neither returns nor raises
LLMGoesSilent ==
    /\ \E c \in Calls :
          /\ Awaiting(c)
          /\ calls[c].client = "pending"
          /\ calls' = [calls EXCEPT ![c].client = "silent"]
    /\ UNCHANGED <<runVars, dedupeVars, genVars, scopeVars, clientVars, riskVars, scoperVars, contractVars>>

InitCalls ==
    /\ RunIdle /\ DedupeIdle /\ GenIdle /\ ScopeIdle /\ RiskIdle /\ ScoperIdle /\ ContractIdle
    /\ diff = <<>>
    /\ llm_client \in BOOLEAN
    /\ calls = [c \in Calls |-> NotCalled]

NextCalls ==
    \/ ReviewPrStart
    \/ ReviewPrNoClient
    \/ LLMResponds
    \/ LLMGoesSilent

SpecCalls == InitCalls /\ [][NextCalls]_vars

----------------------------------------------------------------------------
(* Claims about several review_pr calls, checked under SpecCalls *)

\* the output review_pr builds from the reviewer outputs produced for call c alone
OwnOutput(c) == ReviewPrReturn(calls[c].changed_files, calls[c].produced)

Returned_(c) == calls[c].pc = "DONE"

\* C21: when two review_pr calls on one orchestrator interleave at the await of a
\* reviewer, the output of each call (subagent_results, rollup findings, tool plan,
\* summary) is built from the reviewer outputs produced for that call and from nothing
\* else.
C21_CallsOwnTheirResults ==
    \A c \in Calls : Returned_(c) => calls[c].output = OwnOutput(c)

\* C22: a call whose language model never answers is not left waiting: the timeout
\* of the call lets review_pr go on (the reviewer skipped), so that every call that
\* has started and not returned can take a step.
C22_SilentClientIsTimedOut ==
    \A c \in Calls : Awaiting(c) /\ calls[c].client = "silent" => ENABLED LLMRespondsTo(c)

\* C30: the output of a call that did not overlap with another call is built from
\* that call's reviewer outputs only, whatever the earlier calls left behind.
C30_LatestCallOwnsItsOutput ==
    \A c \in Calls : Returned_(c) /\ ~calls[c].overlapped => calls[c].output = OwnOutput(c)

\* two calls one after the other: the architecture reviewer returned a finding in
\* the first and raised in the second, which is the latest
C30_Witness ==
    /\ \A c \in Calls : Returned_(c) /\ ~calls[c].overlapped
    /\ \E c, d \in Calls :
          /\ Len(calls[c].produced) = Len(REQUIRED_SUBAGENTS)
          /\ calls[c].produced[1].findings # <<>>
          /\ Len(calls[d].produced) = Len(REQUIRED_SUBAGENTS) - 1
          /\ subagent_results = calls[d].produced

----------------------------------------------------------------------------
(* agents/review/agents/linting.py and documentation.py: the reviewers built on *)
(* the ReviewContext contract (contracts.py). What review() reads from outside   *)
(* (the executor's ruff results, the files under repo_root) is its input.        *)

\* linting.py 261-291
_determine_severity_from_ruff(code) ==
    IF code = <<>> THEN "warning"
    ELSE IF code[1] = "E" THEN "critical"
    ELSE IF code[1] = "F" THEN "critical"
    ELSE "warning"

\* linting.py 407-427: the first blocking or critical finding met decides
RECURSIVE OverallScan(_, _)
OverallScan(findings, i) ==
    IF i > Len(findings) THEN "warning"
    ELSE IF findings[i].severity = "blocking" THEN "blocking"
    ELSE IF findings[i].severity = "critical" THEN "critical"
    ELSE OverallScan(findings, i + 1)

_determine_overall_severity(findings) ==
    IF findings = <<>> THEN "merge" ELSE OverallScan(findings, 1)

\* linting.py 429-446
_determine_merge_gate(findings, severity) ==
    IF severity = "blocking" THEN "block"
    ELSE IF severity = "critical" THEN "needs_changes"
    ELSE IF severity = "warning" /\ findings # <<>> THEN "needs_changes"
    ELSE "approve"

\* linting.py 134-190: the findings of `ruff check`, or the one of its failure
RuffFindings(ruff) ==
    IF ruff.raised
    THEN <<[id |-> <<"lint-ruff-execution">>, title |-> <<"Ruff execution failed">>,
            severity |-> "warning"]>>
    ELSE [i \in 1..Len(ruff.parsed_findings) |->
             [id |-> <<"lint-ruff", i - 1>>,
              title |-> <<"Ruff issue", ruff.parsed_findings[i]>>,
              severity |-> _determine_severity_from_ruff(ruff.parsed_findings[i])]]

\* linting.py 192-222: the finding of `ruff format --check`
FormatFindings(format) ==
    IF ~format.raised /\ format.exit_code # 0
    THEN <<[id |-> <<"lint-format">>, title |-> <<"Code formatting issues detected">>,
            severity |-> "warning"]>>
    ELSE <<>>

\* linting.py 343-405: one warning per function without a return annotation
_check_type_hints(untyped) ==
    [i \in 1..untyped |->
        [id |-> <<"type-hint", i>>, title |-> <<"Missing type hints in function", i>>,
         severity |-> "warning"]]

\* linting.py 95-259
LintingReview(input) ==
    IF ~input.relevant
    THEN [agent |-> "linting", severity |-> "merge", findings |-> <<>>, checks |-> <<>>,
          merge_gate |-> [decision |-> "approve", must_fix |-> <<>>, should_fix |-> <<>>]]
    ELSE LET findings == RuffFindings(input.ruff) \o FormatFindings(input.format)
                         \o _check_type_hints(input.untyped)
             checks == (IF ~input.ruff.raised /\ input.ruff.parsed_findings # <<>>
                        THEN <<"ruff_check">> ELSE <<>>)
                       \o (IF ~input.format.raised /\ input.format.exit_code # 0
                           THEN <<"ruff_format">> ELSE <<>>)
             severity == _determine_overall_severity(findings)
         IN  [agent |-> "linting",
              severity |-> severity,
              findings |-> findings,
              checks |-> checks,
              merge_gate |-> [decision |-> _determine_merge_gate(findings, severity),
                              must_fix |-> IdsOf(SelectSeq(findings, IsMustFix)),
                              should_fix |-> IdsOf(SelectSeq(findings, IsShouldFix))]]

\* documentation.py 354-423 and 174-213: one warning per public function, class or
\* module without a docstring, and one per configuration file without documentation
DocumentationFindings(input) ==
    [i \in 1..input.undocumented |->
        [id |-> <<"doc-missing-func", i>>, title |-> <<"lacks docstring", i>>,
         severity |-> "warning"]]
    \o [i \in 1..input.config_files |->
           [id |-> <<"doc-missing-config-docs">>,
            title |-> <<"Configuration file lacks documentation", i>>,
            severity |-> "warning"]]

\* documentation.py 277-352
DocumentationReview(input) ==
    LET findings == DocumentationFindings(input)
        must_fix == IdsOf(SelectSeq(findings, IsMustFix))
    IN  [agent |-> "documentation",
         severity |-> IF AnySeverity(findings, "blocking") THEN "blocking"
                      ELSE IF AnySeverity(findings, "critical") THEN "critical"
                      ELSE IF AnySeverity(findings, "warning") THEN "warning"
                      ELSE "merge",
         findings |-> findings,
         checks |-> <<>>,
         merge_gate |-> [decision |-> IF AnySeverity(findings, "blocking") THEN "block"
                                      ELSE IF must_fix # <<>> THEN "needs_changes"
                                      ELSE "approve",
                         must_fix |-> must_fix,
                         should_fix |-> IdsOf(SelectSeq(findings, IsShouldFix))]]

\* most issues `ruff check` reports
MaxRuffFindings == 2

\* rule codes of ruff: none, pycodestyle errors and warnings, pyflakes, isort, pyupgrade
RuffCodes ==
    {<<>>, <<"E", "5", "0", "1">>, <<"F", "4", "0", "1">>, <<"W", "2", "9", "1">>,
     <<"I", "0", "0", "1">>, <<"U", "P", "0", "0", "6">>}

\* what the executor gives for `ruff check`: an exception, or the parsed findings
RuffResults ==
    {[raised |-> TRUE, parsed_findings |-> <<>>]}
    \cup {[raised |-> FALSE, parsed_findings |-> codes] :
            codes \in SeqsUpTo(RuffCodes, MaxRuffFindings)}

\* what the executor gives for `ruff format --check`: an exception, or an exit code
FormatResults ==
    {[raised |-> TRUE, exit_code |-> 0], [raised |-> FALSE, exit_code |-> 0],
     [raised |-> FALSE, exit_code |-> 1]}

\* functions without a return annotation, docstrings and documented configuration missing
MissingCounts == {0, 1, 2}

LintingInputs ==
    [reviewer : {"linting"}, relevant : BOOLEAN, ruff : RuffResults, format : FormatResults,
     untyped : MissingCounts]

DocumentationInputs ==
    [reviewer : {"documentation"}, undocumented : MissingCounts, config_files : MissingCounts]

InitContract ==
    /\ RunIdle /\ DedupeIdle /\ GenIdle /\ ScopeIdle /\ ClientIdle /\ RiskIdle /\ ScoperIdle
    /\ CallsIdle
    /\ review_input \in LintingInputs \cup DocumentationInputs
    /\ review_output = None

\* linting.py 95-259
LintingReviewerReview ==
    /\ review_output = None
    /\ review_input.reviewer = "linting"
    /\ review_output' = LintingReview(review_input)
    /\ UNCHANGED <<runVars, dedupeVars, genVars, scopeVars, clientVars, riskVars, scoperVars,
                 callVars, review_input>>

\* documentation.py 277-352
DocumentationReviewerReview ==
    /\ review_output = None
    /\ review_input.reviewer = "documentation"
    /\ review_output' = DocumentationReview(review_input)
    /\ UNCHANGED <<runVars, dedupeVars, genVars, scopeVars, clientVars, riskVars, scoperVars,
                 callVars, review_input>>

NextContract ==
    \/ LintingReviewerReview
    \/ DocumentationReviewerReview

SpecContract == InitContract /\ [][NextContract]_vars

\* C24: the merge gate decision of LintingReviewer.review and of
\* DocumentationReviewer.review is the fixed mapping of the overall severity:
\* blocking gives block, critical gives needs_changes, warning gives
\* approve_with_warnings and merge gives approve.
C24_ContractReviewersFollowMapping ==
    review_output # None =>
        review_output.merge_gate.decision = PolicyDecision(review_output.severity)

----------------------------------------------------------------------------
(* The merge gate and the summary of a run of review_pr, checked under Spec *)

\* C25: in the returned output the merge gate agrees with its fix lists: when must_fix
\* is not empty the decision is needs_changes or block, and when the decision is
\* approve both must_fix and should_fix are empty.
C25_GateConsistentWithFixLists ==
    pc = "DONE" =>
        /\ output.merge_gate.must_fix # <<>> =>
              output.merge_gate.decision \in {"needs_changes", "block"}
        /\ output.merge_gate.decision = "approve" =>
              /\ output.merge_gate.must_fix = <<>>
              /\ output.merge_gate.should_fix = <<>>

\* the rollup findings that carry the id
FindingsWithId(id) ==
    {i \in 1..Len(output.rollup.findings) : output.rollup.findings[i].id = id}

\* C28: in the returned output must_fix and should_fix are disjoint, neither repeats
\* an id, and every id in them is the id of exactly one rollup finding, also when two
\* reviewers use the same id for different findings.
C28_FixListsIdentifyFindings ==
    pc = "DONE" =>
        LET must_fix == output.merge_gate.must_fix
            should_fix == output.merge_gate.should_fix
        IN  /\ Range(must_fix) \cap Range(should_fix) = {}
            /\ \A i, j \in 1..Len(must_fix) : must_fix[i] = must_fix[j] => i = j
            /\ \A i, j \in 1..Len(should_fix) : should_fix[i] = should_fix[j] => i = j
            /\ \A id \in Range(must_fix) \cup Range(should_fix) :
                  Cardinality(FindingsWithId(id)) = 1

\* C29: in the returned output summary.risk_level agrees with rollup.final_severity
\* (high iff critical or blocking, medium iff warning, low iff merge), and
\* summary.high_risk_areas is empty unless the final severity is critical or blocking.
C29_RiskLevelAgreesWithSeverity ==
    pc = "DONE" =>
        /\ output.summary.risk_level = "high"
              <=> output.rollup.final_severity \in {"critical", "blocking"}
        /\ output.summary.risk_level = "medium" <=> output.rollup.final_severity = "warning"
        /\ output.summary.risk_level = "low" <=> output.rollup.final_severity = "merge"
        /\ output.summary.high_risk_areas # <<>> =>
              output.rollup.final_severity \in {"critical", "blocking"}

----------------------------------------------------------------------------
(* What _dedupe_findings drops, checked under SpecDedupe *)

\* C26: deduplication hides no severity: the greatest severity among the findings
\* kept by _dedupe_findings is the greatest severity among the collected findings,
\* also when a later duplicate is more severe than the first occurrence.
C26_DedupeKeepsMaxSeverity ==
    deduped_findings # None =>
        MaxSeverity(deduped_findings.value) = MaxSeverity(all_findings)

\* C27: _dedupe_findings drops a finding only for a kept finding with the same title
\* and the same first 100 characters of evidence: findings whose (title, evidence[:100])
\* pairs differ are never collapsed, also when a title or an evidence contains ':'.
C27_DedupeCollapsesEqualPairsOnly ==
    deduped_findings # None =>
        \A i \in 1..Len(all_findings) :
            \E j \in 1..Len(deduped_findings.value) :
                /\ deduped_findings.value[j].title = all_findings[i].title
                /\ Slice(deduped_findings.value[j].evidence, EvidenceKeyLen) =
                      Slice(all_findings[i].evidence, EvidenceKeyLen)

====
